---------------------------- MODULE Spec2Model ----------------------------
(***************************************************************************)
(* Link/HTML normalization of scripts/generate_report.py.                  *)
(*                                                                         *)
(* A Python string is modelled as a sequence of characters; a character is *)
(* a one-character TLA+ string, or a name such as "U+201D" for a character *)
(* that has no printable ASCII form.  The alphabet is ASCII, the four      *)
(* smart quotes the code strips, the right guillemet, the dashes and the   *)
(* ellipsis of the program's own texts, and U+FFFD.                        *)
(***************************************************************************)
EXTENDS Naturals, Sequences, FiniteSets, TLC

VARIABLES
    pc,          \* position of the run: which calls have returned
    raw_val,     \* argument of _normalize_href
    href,        \* _normalize_href(raw_val)
    html_markup, \* argument of _rewrite_links_in_html
    autolinked,  \* html_markup after the autolink pre-pass (line 1145)
    rewritten,   \* _rewrite_links_in_html(html_markup)
    rewritten2,  \* _rewrite_links_in_html(rewritten)
    environ,     \* os.environ when the module is imported: name -> value
    RUN_TYPE,    \* sys.argv[1]
    synthesized, \* the dict call_openai has returned
    payload,     \* the dict main carries to the outputs
    rendered,    \* _render_html_from_structured(payload)
    debug_files, \* the files write_debug_artifacts has written
    page,        \* the file write_html_to_pages has written
    email,       \* the message send_email has handed to the transport
    raised,      \* the exception that has ended the run
    caller,      \* who called call_openai: "main", or "direct" for a call of its own
    mode,        \* the mode argument of call_openai
    requests,    \* whether the requests package could be imported (lines 17-20)
    world,       \* what the services answer during this run
    searched,    \* the number of tavily_search calls build_context has made
    results,     \* results of build_context
    tavily_debug,\* tavily_debug of build_context
    context,     \* what build_context has returned
    attempt,     \* model_in_use, endpoint and payload variant of call_openai
    last_error,  \* last_error of call_openai
    sent         \* the number of requests made to the provider so far

\* the variables of the report pipeline
pipeline == <<RUN_TYPE, synthesized, payload, rendered, debug_files, page, email, raised>>

\* the variables of call_openai
call == <<caller, mode, requests, world, searched, results, tavily_debug, context, attempt,
          last_error, sent>>

vars == <<pc, raw_val, href, html_markup, autolinked, rewritten, rewritten2,
          environ, pipeline, call>>

(***************************************************************************)
(* Characters.                                                             *)
(***************************************************************************)
Ascii ==
   <<
      "U+0000", "U+0001", "U+0002", "U+0003", "U+0004", "U+0005", "U+0006", "U+0007",
      "U+0008", "\t", "\n", "U+000B", "\f", "\r", "U+000E", "U+000F",
      "U+0010", "U+0011", "U+0012", "U+0013", "U+0014", "U+0015", "U+0016", "U+0017",
      "U+0018", "U+0019", "U+001A", "U+001B", "U+001C", "U+001D", "U+001E", "U+001F",
      " ", "!", "\"", "#", "$", "%", "&", "'",
      "(", ")", "*", "+", ",", "-", ".", "/",
      "0", "1", "2", "3", "4", "5", "6", "7",
      "8", "9", ":", ";", "<", "=", ">", "?",
      "@", "A", "B", "C", "D", "E", "F", "G",
      "H", "I", "J", "K", "L", "M", "N", "O",
      "P", "Q", "R", "S", "T", "U", "V", "W",
      "X", "Y", "Z", "[", "\\", "]", "^", "_",
      "U+0060", "a", "b", "c", "d", "e", "f", "g",
      "h", "i", "j", "k", "l", "m", "n", "o",
      "p", "q", "r", "s", "t", "u", "v", "w",
      "x", "y", "z", "{", "|", "}", "~", "U+007F"
   >>

AsciiSet == {Ascii[i] : i \in 1..Len(Ascii)}

\* code point of an ASCII character, and back
Ord == [c \in AsciiSet |-> (CHOOSE i \in 1..Len(Ascii) : Ascii[i] = c) - 1]

Chr(n) == Ascii[n + 1]

LDQUO == "U+201C"
RDQUO == "U+201D"
LSQUO == "U+2018"
RSQUO == "U+2019"
RAQUO == "U+00BB"
REPLACEMENT == "U+FFFD"

\* the UTF-8 bytes of the characters of the alphabet that are not ASCII
Utf8 ==
    [c \in {LDQUO, RDQUO, LSQUO, RSQUO, RAQUO, REPLACEMENT, "U+2013", "U+2014", "U+2026"} |->
        CASE c = LDQUO -> <<226, 128, 156>>
          [] c = "U+2013" -> <<226, 128, 147>>
          [] c = "U+2014" -> <<226, 128, 148>>
          [] c = "U+2026" -> <<226, 128, 166>>
          [] c = RDQUO -> <<226, 128, 157>>
          [] c = LSQUO -> <<226, 128, 152>>
          [] c = RSQUO -> <<226, 128, 153>>
          [] c = RAQUO -> <<194, 187>>
          [] c = REPLACEMENT -> <<239, 191, 189>>]

Lowers == {Ascii[i] : i \in 98..123}
Uppers == {Ascii[i] : i \in 66..91}
Digits == {Ascii[i] : i \in 49..58}
Alpha == Lowers \cup Uppers
Alnum == Alpha \cup Digits

\* str.isspace / the regex class \s, on the alphabet
Space == {" ", "\t", "\n", "\r", "\f", "U+000B", "U+001C", "U+001D", "U+001E", "U+001F"}

lower(c) == IF c \in Uppers THEN Chr(Ord[c] + 32) ELSE c

(***************************************************************************)
(* Strings.  Indices are 1-based; 0 stands for "not found".                *)
(***************************************************************************)
Chars(s) == {s[i] : i \in 1..Len(s)}

From(s, i) == SubSeq(s, i, Len(s))

startswith(s, p) == Len(s) >= Len(p) /\ SubSeq(s, 1, Len(p)) = p

StartsAt(s, i, p) == i + Len(p) - 1 <= Len(s) /\ SubSeq(s, i, i + Len(p) - 1) = p

lowerStr(s) == [i \in 1..Len(s) |-> lower(s[i])]

\* case-insensitive StartsAt, for a lower-case p (re.IGNORECASE)
StartsAtCI(s, i, p) ==
    i + Len(p) - 1 <= Len(s) /\ lowerStr(SubSeq(s, i, i + Len(p) - 1)) = p

\* str.find(c, from): the first index >= from holding a character of cs
FindIn(s, cs, from) ==
    IF \E i \in from..Len(s) : s[i] \in cs
    THEN CHOOSE i \in from..Len(s) : s[i] \in cs /\ \A j \in from..(i - 1) : s[j] \notin cs
    ELSE 0

\* the first index >= from holding a character outside cs, Len(s)+1 if none
SkipIn(s, cs, from) ==
    IF \E i \in from..Len(s) : s[i] \notin cs
    THEN CHOOSE i \in from..Len(s) : s[i] \notin cs /\ \A j \in from..(i - 1) : s[j] \in cs
    ELSE Len(s) + 1

\* the end of a run: the first index >= from holding a character of cs,
\* Len(s)+1 if none
UntilIn(s, cs, from) == IF FindIn(s, cs, from) = 0 THEN Len(s) + 1 ELSE FindIn(s, cs, from)

\* "p in s"
Contains(s, p) == \E i \in 1..(Len(s) - Len(p) + 1) : StartsAt(s, i, p)

\* str.lstrip(cs), str.rstrip(cs), str.strip(cs)
lstrip(s, cs) == From(s, SkipIn(s, cs, 1))

rstrip(s, cs) ==
    IF \E i \in 1..Len(s) : s[i] \notin cs
    THEN SubSeq(s, 1, CHOOSE i \in 1..Len(s) : s[i] \notin cs /\ \A j \in (i + 1)..Len(s) : s[j] \in cs)
    ELSE <<>>

strip(s, cs) == rstrip(lstrip(s, cs), cs)

\* str.replace(c, ""): s without the characters of cs
Without(s, cs) == SelectSeq(s, LAMBDA c : c \notin cs)

Hex == <<"0", "1", "2", "3", "4", "5", "6", "7", "8", "9", "A", "B", "C", "D", "E", "F">>

HexDigit == {Hex[i] : i \in 1..16} \cup {"a", "b", "c", "d", "e", "f"}

HexVal(c) == (CHOOSE i \in 1..16 : Hex[i] = IF c \in Lowers THEN Chr(Ord[c] - 32) ELSE c) - 1

(***************************************************************************)
(* urllib.parse.quote / unquote (UTF-8, errors='replace').                 *)
(***************************************************************************)
PctByte(b) == <<"%", Hex[(b \div 16) + 1], Hex[(b % 16) + 1]>>

\* the %XX form of one character
PctEncode(c) ==
    IF c \in AsciiSet
    THEN PctByte(Ord[c])
    ELSE LET bs == Utf8[c]
         IN  IF Len(bs) = 2
             THEN PctByte(bs[1]) \o PctByte(bs[2])
             ELSE PctByte(bs[1]) \o PctByte(bs[2]) \o PctByte(bs[3])

\* quote's _ALWAYS_SAFE: letters, digits and "_.-~"
AlwaysSafe == Alnum \cup {"_", ".", "-", "~"}

\* quote from index i on: the safe characters kept, each other one encoded
RECURSIVE quoteFrom(_, _, _)
quoteFrom(s, safe, i) ==
    LET j == SkipIn(s, AlwaysSafe \cup safe, i)
    IN  IF j > Len(s)
        THEN From(s, i)
        ELSE SubSeq(s, i, j - 1) \o PctEncode(s[j]) \o quoteFrom(s, safe, j + 1)

quote(s, safe) == quoteFrom(s, safe, 1)

IsEscape(s, i) ==
    i + 2 <= Len(s) /\ s[i] = "%" /\ s[i + 1] \in HexDigit /\ s[i + 2] \in HexDigit

ByteAt(s, i) == 16 * HexVal(s[i + 1]) + HexVal(s[i + 2])

\* the escapes at i, i+3, ... spell the UTF-8 bytes bs
RECURSIVE EscapesSpell(_, _, _)
EscapesSpell(s, i, bs) ==
    bs = <<>> \/ (IsEscape(s, i) /\ ByteAt(s, i) = Head(bs) /\ EscapesSpell(s, i + 3, Tail(bs)))

\* the least member of a non-empty set of numbers
Min(S) == CHOOSE x \in S : \A y \in S : x <= y

\* the character the escapes at i decode to, and the index after them.  An
\* escaped byte below 0x80 is its ASCII character; escaped bytes that spell a
\* non-ASCII character of the alphabet are that character; any other escaped
\* byte decodes to U+FFFD.
DecodeAt(s, i) ==
    IF ByteAt(s, i) < 128
    THEN [c |-> Chr(ByteAt(s, i)), next |-> i + 3]
    ELSE IF \E c \in DOMAIN Utf8 : EscapesSpell(s, i, Utf8[c])
    THEN LET c == CHOOSE x \in DOMAIN Utf8 : EscapesSpell(s, i, Utf8[x])
         IN  [c |-> c, next |-> i + 3 * Len(Utf8[c])]
    ELSE [c |-> REPLACEMENT, next |-> i + 3]

RECURSIVE unquoteFrom(_, _)
unquoteFrom(s, i) ==
    LET es == {j \in i..Len(s) : IsEscape(s, j)}
    IN  IF es = {}
        THEN From(s, i)
        ELSE LET j == Min(es)
                 d == DecodeAt(s, j)
             IN  SubSeq(s, i, j - 1) \o <<d.c>> \o unquoteFrom(s, d.next)

unquote(s) == unquoteFrom(s, 1)

(***************************************************************************)
(* urllib.parse.urlsplit / urlunsplit (CPython 3.11).                      *)
(***************************************************************************)
\* _WHATWG_C0_CONTROL_OR_SPACE and _UNSAFE_URL_BYTES_TO_REMOVE
C0ControlOrSpace == {Ascii[i] : i \in 1..33}
UnsafeUrlBytes == {"\t", "\r", "\n"}

scheme_chars == Alnum \cup {"+", "-", "."}

uses_netloc ==
    { <<>>,
      <<"f","t","p">>, <<"h","t","t","p">>, <<"h","t","t","p","s">>,
      <<"f","i","l","e">>, <<"w","s">>, <<"w","s","s">>,
      <<"s","f","t","p">>, <<"g","i","t">>, <<"s","v","n">>, <<"n","f","s">>,
      <<"m","m","s">>, <<"i","m","a","p">>, <<"n","n","t","p">>,
      <<"w","a","i","s">>, <<"r","t","s","p">>, <<"r","t","s","p","s">>,
      <<"r","t","s","p","u">>, <<"r","s","y","n","c">>, <<"s","h","t","t","p">>,
      <<"s","n","e","w","s">>, <<"g","o","p","h","e","r">>, <<"t","e","l","n","e","t">>,
      <<"p","r","o","s","p","e","r","o">>, <<"s","v","n","+","s","s","h">>,
      <<"g","i","t","+","s","s","h">> }

\* the url as urlsplit reads it: leading controls and spaces, and every tab,
\* CR and LF, removed
UrlCleaned(url) == Without(lstrip(url, C0ControlOrSpace), UnsafeUrlBytes)

\* index of the ":" that ends a scheme, 0 when the url has no scheme
SchemeEnd(u) ==
    LET i == FindIn(u, {":"}, 1)
    IN  IF i > 1 /\ u[1] \in Alpha /\ \A j \in 1..(i - 1) : u[j] \in scheme_chars
        THEN i
        ELSE 0

\* scheme, url = url[:i].lower(), url[i+1:]
SchemeOf(u) ==
    IF SchemeEnd(u) > 0 THEN lowerStr(SubSeq(u, 1, SchemeEnd(u) - 1)) ELSE <<>>

AfterScheme(u) == IF SchemeEnd(u) > 0 THEN From(u, SchemeEnd(u) + 1) ELSE u

\* _splitnetloc(url, 2): after "//" the netloc runs to the first "/", "?" or "#"
NetlocOf(u) ==
    IF startswith(u, <<"/", "/">>)
    THEN SubSeq(u, 3, UntilIn(u, {"/", "?", "#"}, 3) - 1)
    ELSE <<>>

AfterNetloc(u) ==
    IF startswith(u, <<"/", "/">>) THEN From(u, UntilIn(u, {"/", "?", "#"}, 3)) ELSE u

\* url.split(c, 1): the text before the first c, and the text after it
Before(u, c) == SubSeq(u, 1, UntilIn(u, {c}, 1) - 1)

After(u, c) == From(u, UntilIn(u, {c}, 1) + 1)

\* netloc, fragment, query and path of the url that follows the scheme
SplitAfterScheme(sch, u) ==
    [scheme   |-> sch,
     netloc   |-> NetlocOf(u),
     path     |-> Before(Before(AfterNetloc(u), "#"), "?"),
     query    |-> After(Before(AfterNetloc(u), "#"), "?"),
     fragment |-> After(AfterNetloc(u), "#")]

\* the five components; the ValueError cases are urlsplit_raises
urlsplit(url) == SplitAfterScheme(SchemeOf(UrlCleaned(url)), AfterScheme(UrlCleaned(url)))

\* _check_bracketed_host accepts an IPv6 literal or a "v<hex>.<text>" future
\* address; of the bracketed hosts of the alphabet only colon-and-hex-digit
\* literals with at least two colons are taken to be accepted.
BracketedHostOk(nl) ==
    LET o == FindIn(nl, {"["}, 1)
        c == FindIn(nl, {"]"}, o + 1)
        h == SubSeq(nl, o + 1, c - 1)
    IN  /\ c > 0
        /\ Chars(h) \subseteq (HexDigit \cup {":"})
        /\ Cardinality({k \in 1..Len(h) : h[k] = ":"}) >= 2
        /\ Contains(h, <<":", ":">>)

\* "Invalid IPv6 URL": a netloc with one bracket and not the other, or with a
\* bracketed host that is no IP literal.  _checknetloc raises for no netloc of
\* the alphabet (its non-ASCII characters are their own NFKC form).
NetlocRaises(nl) ==
    \/ ("[" \in Chars(nl)) /= ("]" \in Chars(nl))
    \/ ("[" \in Chars(nl) /\ "]" \in Chars(nl) /\ ~BracketedHostOk(nl))

urlsplit_raises(url) == NetlocRaises(urlsplit(url).netloc)

urlunsplit(scheme, netloc, path, query, fragment) ==
    LET u1 == IF netloc /= <<>>
                 \/ (scheme /= <<>> /\ scheme \in uses_netloc /\ ~startswith(path, <<"/", "/">>))
              THEN <<"/", "/">> \o netloc
                     \o (IF path /= <<>> /\ path[1] /= "/" THEN <<"/">> ELSE <<>>) \o path
              ELSE path
        u2 == IF scheme /= <<>> THEN scheme \o <<":">> \o u1 ELSE u1
        u3 == IF query /= <<>> THEN u2 \o <<"?">> \o query ELSE u2
    IN  IF fragment /= <<>> THEN u3 \o <<"#">> \o fragment ELSE u3

PathSafe == {"/", ":", "@", "-", ".", "_", "~", "!", "$", "&", "'", "(", ")", "*", "+", ",", ";", "="}
QuerySafe == {"=", "&", ":", "@", "-", ".", "_", "~", "!", "$", "'", "(", ")", "*", "+", ",", ";"}
FragmentSafe == {":", "@", "-", ".", "_", "~", "!", "$", "&", "'", "(", ")", "*", "+", ",", ";", "="}

\* decode-then-encode of path, query and fragment; the url itself when
\* urlsplit raises (except Exception: return url)
EncodeParts(parsed) ==
    urlunsplit(parsed.scheme, parsed.netloc,
               quote(unquote(parsed.path), PathSafe),
               quote(unquote(parsed.query), QuerySafe),
               quote(unquote(parsed.fragment), FragmentSafe))

\* _percent_encode_url without its try/except: the ValueError of urlsplit
\* reaches the caller
ValueError == <<"ValueError: Invalid IPv6 URL">>

PercentEncodeUnguarded(url) ==
    IF urlsplit_raises(url) THEN ValueError ELSE EncodeParts(urlsplit(url))

_percent_encode_url(url) ==
    IF urlsplit_raises(url) THEN url ELSE EncodeParts(urlsplit(url))

(***************************************************************************)
(* html.unescape / html.escape.  Of the named character references the     *)
(* model knows amp, lt, gt and quot, in either case and with or without    *)
(* the semicolon.  A numeric reference to a code point outside the         *)
(* alphabet decodes to U+FFFD.                                             *)
(***************************************************************************)
EntityNames ==
    { <<"a","m","p">>, <<"l","t">>, <<"g","t">>, <<"q","u","o","t">>,
      <<"A","M","P">>, <<"L","T">>, <<"G","T">>, <<"Q","U","O","T">> }

EntityChar(n) ==
    CASE lowerStr(n) = <<"a","m","p">> -> "&"
      [] lowerStr(n) = <<"l","t">> -> "<"
      [] lowerStr(n) = <<"g","t">> -> ">"
      [] lowerStr(n) = <<"q","u","o","t">> -> "\""

MaxCodePoint == 1114111

\* "&#" and decimal digits, or "&#x" and hex digits, at index i: the index of
\* the first digit, 0 when there is none
NumRefDigits(s, i) ==
    IF ~StartsAt(s, i, <<"&", "#">>)
    THEN 0
    ELSE IF i + 3 <= Len(s) /\ s[i + 2] \in {"x", "X"} /\ s[i + 3] \in HexDigit
    THEN i + 3
    ELSE IF i + 2 <= Len(s) /\ s[i + 2] \in Digits
    THEN i + 2
    ELSE 0

\* int(s[a..b], base), every value above MaxCodePoint taken as MaxCodePoint + 1
RECURSIVE NumVal(_, _, _, _)
NumVal(s, a, b, base) ==
    IF a > b
    THEN 0
    ELSE LET v == NumVal(s, a, b - 1, base) * base + HexVal(s[b])
         IN  IF v > MaxCodePoint THEN MaxCodePoint + 1 ELSE v

\* replace_charref for the code point n: _invalid_charrefs, the surrogates and
\* the out-of-range values, _invalid_codepoints (dropped), else chr(n)
CodePointChars(n) ==
    IF n = 0 THEN <<REPLACEMENT>>
    ELSE IF n = 13 THEN <<"\r">>
    ELSE IF n = 145 THEN <<LSQUO>>
    ELSE IF n = 146 THEN <<RSQUO>>
    ELSE IF n = 147 THEN <<LDQUO>>
    ELSE IF n = 148 THEN <<RDQUO>>
    ELSE IF n \in 128..159 THEN <<REPLACEMENT>>
    ELSE IF n \in 55296..57343 \/ n > MaxCodePoint THEN <<REPLACEMENT>>
    ELSE IF n \in (1..8) \cup {11} \cup (14..31) \cup {127} \cup (64976..65007)
              \/ n % 65536 \in {65534, 65535}
    THEN <<>>
    ELSE IF n < 128 THEN <<Chr(n)>>
    ELSE IF n = 187 THEN <<RAQUO>>
    ELSE IF n = 8216 THEN <<LSQUO>>
    ELSE IF n = 8217 THEN <<RSQUO>>
    ELSE IF n = 8220 THEN <<LDQUO>>
    ELSE IF n = 8221 THEN <<RDQUO>>
    ELSE <<REPLACEMENT>>

\* the numeric reference at index i: what it decodes to, the index after it
NumRefAt(s, i) ==
    LET a    == NumRefDigits(s, i)
        hex  == a = i + 3
        e    == SkipIn(s, IF hex THEN HexDigit ELSE Digits, a)
    IN  [chars |-> CodePointChars(NumVal(s, a, e - 1, IF hex THEN 16 ELSE 10)),
         next |-> IF e <= Len(s) /\ s[e] = ";" THEN e + 1 ELSE e]

\* the named reference at index i
NamedRefAt(s, i) ==
    LET n == CHOOSE x \in EntityNames : StartsAt(s, i + 1, x)
        e == i + 1 + Len(n)
    IN  [chars |-> <<EntityChar(n)>>, next |-> IF e <= Len(s) /\ s[e] = ";" THEN e + 1 ELSE e]
\* a character reference starts at index i
IsEntity(s, i) ==
    \/ NumRefDigits(s, i) > 0
    \/ s[i] = "&" /\ \E n \in EntityNames : StartsAt(s, i + 1, n)

RECURSIVE unescapeFrom(_, _)
unescapeFrom(s, i) ==
    LET es == {j \in i..Len(s) : IsEntity(s, j)}
    IN  IF es = {}
        THEN From(s, i)
        ELSE LET j == Min(es)
                 r == IF NumRefDigits(s, j) > 0 THEN NumRefAt(s, j) ELSE NamedRefAt(s, j)
             IN  SubSeq(s, i, j - 1) \o r.chars \o unescapeFrom(s, r.next)

unescape(s) == unescapeFrom(s, 1)

EscapeChar(c) ==
    CASE c = "&" -> <<"&","a","m","p",";">>
      [] c = "<" -> <<"&","l","t",";">>
      [] c = ">" -> <<"&","g","t",";">>
      [] c = "\"" -> <<"&","q","u","o","t",";">>
      [] c = "'" -> <<"&","#","x","2","7",";">>
      [] OTHER -> <<c>>

RECURSIVE escapeFrom(_, _)
escapeFrom(s, i) ==
    LET j == UntilIn(s, {"&", "<", ">", "\"", "'"}, i)
    IN  IF j > Len(s)
        THEN From(s, i)
        ELSE SubSeq(s, i, j - 1) \o EscapeChar(s[j]) \o escapeFrom(s, j + 1)

escape(s) == escapeFrom(s, 1)

(***************************************************************************)
(* _normalize_href                                                         *)
(***************************************************************************)
\* s.strip('...'): smart quotes, the straight double quote and the backtick
SurroundingQuotes == {LDQUO, RDQUO, LSQUO, RSQUO, "\"", "U+0060"}

\* while s and s[-1] in ",.);]>>\"...": trailing prose punctuation
TrailingPunct == {",", ".", ")", ";", "]", RAQUO, "\"", RSQUO, RDQUO}

HTTP_ == <<"h","t","t","p",":","/","/">>
HTTPS_ == <<"h","t","t","p","s",":","/","/">>
MAILTO_ == <<"m","a","i","l","t","o",":">>
TEL_ == <<"t","e","l",":">>

\* lines 1101-1108: schemeless and single-slash scheme forms
FixScheme(s) ==
    IF startswith(s, <<"/", "/">>)
    THEN <<"h","t","t","p","s",":">> \o s
    ELSE IF startswith(s, <<"w","w","w",".">>)
    THEN HTTPS_ \o s
    ELSE IF startswith(s, <<"h","t","t","p","s",":","/">>) /\ ~startswith(s, HTTPS_)
    THEN HTTPS_ \o From(s, 8)
    ELSE IF startswith(s, <<"h","t","t","p",":","/">>) /\ ~startswith(s, HTTP_)
    THEN HTTP_ \o From(s, 7)
    ELSE s

\* "$" of a pattern without re.MULTILINE: the end, or just before a final LF
AtDollar(s, i) == i = Len(s) + 1 \/ (i = Len(s) /\ s[i] = "\n")

\* the domain pattern without its optional path: ^[A-Za-z0-9.-]+\.[A-Za-z]{2,}$
IsBareDomainNoPath(s) ==
    \E k \in 2..Len(s) : \E e \in (k + 2)..Len(s) :
        /\ \A j \in 1..(k - 1) : s[j] \in Alnum \cup {".", "-"}
        /\ s[k] = "."
        /\ \A j \in (k + 1)..e : s[j] \in Alpha
        /\ AtDollar(s, e + 1)

\* re.match(r"^[A-Za-z0-9.-]+\.[A-Za-z]{2,}(/.*)?$", s)
IsBareDomain(s) ==
    \E k \in 2..Len(s) : \E e \in (k + 2)..Len(s) :
        /\ \A j \in 1..(k - 1) : s[j] \in Alnum \cup {".", "-"}
        /\ s[k] = "."
        /\ \A j \in (k + 1)..e : s[j] \in Alpha
        /\ \/ AtDollar(s, e + 1)
           \/ /\ s[e + 1] = "/"
              /\ \E z \in (e + 2)..(Len(s) + 1) :
                     AtDollar(s, z) /\ \A j \in (e + 2)..(z - 1) : s[j] /= "\n"

\* re.match(r"^[a-zA-Z][a-zA-Z0-9+.-]*:", s)
HasScheme(s) ==
    \E i \in 2..Len(s) :
        s[i] = ":" /\ s[1] \in Alpha /\ \A j \in 2..(i - 1) : s[j] \in scheme_chars

\* lines 1091-1098: entities decoded, surrounding quotes and trailing
\* punctuation stripped
CleanHref(raw) == rstrip(strip(unescape(strip(raw, Space)), SurroundingQuotes), TrailingPunct)

\* lines 1100-1112
AddHttps(s) == IF IsBareDomain(s) /\ ~HasScheme(s) THEN HTTPS_ \o s ELSE s

CanonicalHref(raw) == AddHttps(FixScheme(CleanHref(raw)))

\* s.startswith(("http://", "https://", "mailto:", "tel:", "#"))
IsAccepted(s) ==
    \/ startswith(s, HTTP_) \/ startswith(s, HTTPS_)
    \/ startswith(s, MAILTO_) \/ startswith(s, TEL_) \/ startswith(s, <<"#">>)

\* the fallback the docstring of _normalize_href names ("otherwise fallback
\* to '#'"), for a relative path and for an unresolved value
RelativeAsFragment(s) == <<"#">>

UnresolvedAsFragment(s) == <<"#">>

\* line 1121: a leading slash without domain is kept, percent-encoded
RelativeHref(s) == _percent_encode_url(s)

\* line 1125: anything else is kept too, percent-encoded
UnresolvedHref(s) == _percent_encode_url(s)

\* lines 1114-1125: the three returns
ReturnHref(s) ==
    IF IsAccepted(s)
    THEN _percent_encode_url(s)
    ELSE IF startswith(s, <<"/">>)
    THEN RelativeHref(s)
    ELSE UnresolvedHref(s)

_normalize_href(raw) == ReturnHref(CanonicalHref(raw))

(***************************************************************************)
(* _rewrite_links_in_html: the anchor pattern (lines 1150-1153), compiled  *)
(* with re.IGNORECASE.                                                     *)
(***************************************************************************)
\* a_tag_pattern = <a\s+([^>]*?)href\s*=\s*(?:(['"])(.*?)(?:\2)|([^\s>]+))([^>]*)>
NoMatch == [ok |-> FALSE]

\* the value after "href\s*=\s*", read at index p: the quoted alternative
\* (the lazy .*? stops at the first closing quote; "." matches no LF),
\* else the unquoted run [^\s>]+ ; either needs a ">" further on
HrefValueAt(t, p) ==
    LET c     == IF p <= Len(t) /\ t[p] \in {"'", "\""} THEN FindIn(t, {t[p]}, p + 1) ELSE 0
        qOk   == /\ c > 0
                 /\ \A j \in (p + 1)..(c - 1) : t[j] /= "\n"
                 /\ FindIn(t, {">"}, c + 1) > 0
        r     == UntilIn(t, Space \cup {">"}, p)
        uOk   == p <= Len(t) /\ r > p /\ FindIn(t, {">"}, r) > 0
    IN  IF qOk
        THEN [ok |-> TRUE, quoted |-> TRUE, val |-> SubSeq(t, p + 1, c - 1), after |-> c + 1]
        ELSE IF uOk
        THEN [ok |-> TRUE, quoted |-> FALSE, val |-> SubSeq(t, p, r - 1), after |-> r]
        ELSE NoMatch

\* "href\s*=\s*" and the value, with "href" at index e
HrefAttrAt(t, e) ==
    LET p1 == SkipIn(t, Space, e + 4)
    IN  IF StartsAtCI(t, e, <<"h","r","e","f">>) /\ p1 <= Len(t) /\ t[p1] = "="
        THEN HrefValueAt(t, SkipIn(t, Space, p1 + 1))
        ELSE NoMatch

\* the match that starts at index i, if any: group 1 (pre), the href value
\* (group 3 or 4), group 5 (post) and the index of the closing ">"
ATagGroups(t, i, s0, e, v) ==
    [ok |-> TRUE, start |-> i, end |-> FindIn(t, {">"}, v.after),
     pre |-> SubSeq(t, s0, e - 1),
     quoted |-> v.quoted, href_val |-> v.val,
     post |-> SubSeq(t, v.after, FindIn(t, {">"}, v.after) - 1)]

\* the indices of the attribute text [^>]*, which begins at s0, where
\* "href\s*=\s*" and a value match
HrefStarts(t, s0) == {e \in s0..(UntilIn(t, {">"}, s0) - 1) : HrefAttrAt(t, e).ok}

\* the lazy group 1 ends at the first of them
ATagMatchFrom(t, i, s0) ==
    IF HrefStarts(t, s0) = {}
    THEN NoMatch
    ELSE ATagGroups(t, i, s0, Min(HrefStarts(t, s0)), HrefAttrAt(t, Min(HrefStarts(t, s0))))

ATagMatchAt(t, i) ==
    IF ~(i + 2 <= Len(t) /\ t[i] = "<" /\ lower(t[i + 1]) = "a" /\ t[i + 2] \in Space)
    THEN NoMatch
    ELSE ATagMatchFrom(t, i, SkipIn(t, Space, i + 2))

TARGET_EQ == <<"t","a","r","g","e","t","=">>
REL_EQ == <<"r","e","l","=">>
TARGET_BLANK == <<" ","t","a","r","g","e","t","=","\"","_","b","l","a","n","k","\"">>
REL_NOOPENER ==
    <<" ","r","e","l","=","\"","n","o","o","p","e","n","e","r"," ",
      "n","o","r","e","f","e","r","r","e","r","\"">>

\* is_external (line 1166)
is_external(normalized) == startswith(normalized, HTTP_) \/ startswith(normalized, HTTPS_)

\* lines 1164-1170: post_attrs with target and rel appended where the
\* combined attribute text holds no "target=", respectively "rel="
PostAttrs(pre_attrs, post_attrs, normalized) ==
    LET attrs_combined == strip(pre_attrs \o <<" ">> \o post_attrs, Space)
        p1 == IF is_external(normalized) /\ ~Contains(attrs_combined, TARGET_EQ)
              THEN strip(post_attrs \o TARGET_BLANK, Space)
              ELSE post_attrs
    IN  IF is_external(normalized) /\ ~Contains(attrs_combined, REL_EQ)
        THEN strip(p1 \o REL_NOOPENER, Space)
        ELSE p1

\* _replacer (lines 1155-1175)
pre_attrs_norm(pre_attrs) ==
    IF strip(pre_attrs, Space) /= <<>> THEN strip(pre_attrs, Space) \o <<" ">> ELSE <<>>

post_attrs_norm(post_attrs) ==
    IF strip(post_attrs, Space) /= <<>> THEN <<" ">> \o strip(post_attrs, Space) ELSE <<>>

\* line 1175: f"<a {pre_attrs_norm}href=\"{normalized}\"{post_attrs_norm}>"
ATag(pre_attrs, normalized, post_attrs) ==
    <<"<", "a", " ">> \o pre_attrs_norm(pre_attrs) \o <<"h","r","e","f","=","\"">>
        \o normalized \o <<"\"">>
        \o post_attrs_norm(PostAttrs(pre_attrs, post_attrs, normalized)) \o <<">">>

_replacer(m) == ATag(m.pre, _normalize_href(m.href_val), m.post)

\* a_tag_pattern.finditer: the matches, left to right, from index i on
ATagStarts(t, i) == {j \in i..Len(t) : ATagMatchAt(t, j).ok}

RECURSIVE ATagMatchesFrom(_, _)
RECURSIVE ATagMatchesWith(_, _)
ATagMatchesWith(t, m) == <<m>> \o ATagMatchesFrom(t, m.end + 1)

ATagMatchesFrom(t, i) ==
    IF ATagStarts(t, i) = {}
    THEN <<>>
    ELSE ATagMatchesWith(t, ATagMatchAt(t, Min(ATagStarts(t, i))))

ATagMatches(t) == ATagMatchesFrom(t, 1)

\* a_tag_pattern.sub(_replacer, t): the text between the matches kept, each
\* match replaced
RECURSIVE SubATags(_, _, _)
SubATags(t, ms, i) ==
    IF ms = <<>>
    THEN From(t, i)
    ELSE SubSeq(t, i, Head(ms).start - 1) \o _replacer(Head(ms))
             \o SubATags(t, Tail(ms), Head(ms).end + 1)

a_tag_sub(h) == SubATags(h, ATagMatches(h), 1)

(***************************************************************************)
(* _autolink_plain_urls_and_markdown                                       *)
(***************************************************************************)
A_HREF == <<"<","a"," ","h","r","e","f","=","\"">>
A_CLOSE == <<"<","/","a",">">>

\* the anchor the three substitutions emit: <a href="{url}">{label}</a>
Anchor(url, label) == A_HREF \o url \o <<"\"", ">">> \o label \o A_CLOSE

\* "https?://" at index u: the index after it, 0 when it is not there
AfterHttp(t, u) ==
    IF StartsAt(t, u, HTTPS_) THEN u + 8
    ELSE IF StartsAt(t, u, HTTP_) THEN u + 7
    ELSE 0

\* the same under re.IGNORECASE
AfterHttpCI(t, u) ==
    IF StartsAtCI(t, u, HTTPS_) THEN u + 8
    ELSE IF StartsAtCI(t, u, HTTP_) THEN u + 7
    ELSE 0

\* md_pattern = \[([^\]]+)\]\((https?://[^\s)]+)\)  at index i
MdMatchAt(t, i) ==
    LET c == FindIn(t, {"]"}, i + 1)
        u == c + 2
        v == AfterHttp(t, u)
        r == UntilIn(t, Space \cup {")"}, v)
    IN  IF /\ t[i] = "["
           /\ c >= i + 2
           /\ c + 1 <= Len(t) /\ t[c + 1] = "("
           /\ v > 0
           /\ r > v /\ r <= Len(t) /\ t[r] = ")"
        THEN [ok |-> TRUE, end |-> r, label |-> SubSeq(t, i + 1, c - 1), url |-> SubSeq(t, u, r - 1)]
        ELSE NoMatch

\* _md_repl
_md_repl(m) == Anchor(_normalize_href(m.url), escape(m.label))

RECURSIVE SubMd(_, _)
SubMd(t, i) ==
    LET js == {j \in i..Len(t) : MdMatchAt(t, j).ok}
    IN  IF js = {}
        THEN From(t, i)
        ELSE LET m == MdMatchAt(t, Min(js))
             IN  SubSeq(t, i, Min(js) - 1) \o _md_repl(m) \o SubMd(t, m.end + 1)

\* angle_pattern = (?:<|&lt;)(https?://[^\s<>]+)(?:>|&gt;)  at index i, with
\* re.IGNORECASE.  The greedy run gives characters back until ">" or "&gt;"
\* follows it: ">" can only follow the whole run, "&gt;" only lie inside it.
AngleMatchAt(t, i) ==
    LET u  == IF t[i] = "<" THEN i + 1
              ELSE IF StartsAtCI(t, i, <<"&","l","t",";">>) THEN i + 4
              ELSE 0
        v  == IF u = 0 THEN 0 ELSE AfterHttpCI(t, u)
        r  == UntilIn(t, Space \cup {"<", ">"}, v)
        xs == {x \in (v + 1)..(r - 4) : StartsAtCI(t, x, <<"&","g","t",";">>)}
    IN  IF v = 0
        THEN NoMatch
        ELSE IF r > v /\ r <= Len(t) /\ t[r] = ">"
        THEN [ok |-> TRUE, end |-> r, url |-> SubSeq(t, u, r - 1)]
        ELSE IF xs /= {}
        THEN LET x == CHOOSE y \in xs : \A z \in xs : z <= y
             IN  [ok |-> TRUE, end |-> x + 3, url |-> SubSeq(t, u, x - 1)]
        ELSE NoMatch

\* _angle_repl: the label is the url as matched
_angle_repl(m) == Anchor(_normalize_href(m.url), m.url)

RECURSIVE SubAngle(_, _)
SubAngle(t, i) ==
    LET js == {j \in i..Len(t) : AngleMatchAt(t, j).ok}
    IN  IF js = {}
        THEN From(t, i)
        ELSE LET m == AngleMatchAt(t, Min(js))
             IN  SubSeq(t, i, Min(js) - 1) \o _angle_repl(m) \o SubAngle(t, m.end + 1)

\* the url of bare_url_pattern at index u: https?://[^\s<>()\"]+
BareUrlAt(t, u) ==
    LET v == AfterHttpCI(t, u)
        r == UntilIn(t, Space \cup {"<", ">", "(", ")", "\""}, v)
    IN  IF v > 0 /\ r > v
        THEN [ok |-> TRUE, end |-> r - 1, url |-> SubSeq(t, u, r - 1)]
        ELSE NoMatch

\* bare_url_pattern = (^|[\s\(\[])(https?://[^\s<>()\"]+)  at index i, with
\* re.IGNORECASE: the url at the start of the text, or after one delimiter
BareMatchAt(t, i) ==
    IF i = 1 /\ BareUrlAt(t, 1).ok
    THEN [ok |-> TRUE, end |-> BareUrlAt(t, 1).end, prefix |-> <<>>, url |-> BareUrlAt(t, 1).url]
    ELSE IF t[i] \in Space \cup {"(", "["} /\ BareUrlAt(t, i + 1).ok
    THEN [ok |-> TRUE, end |-> BareUrlAt(t, i + 1).end, prefix |-> <<t[i]>>,
          url |-> BareUrlAt(t, i + 1).url]
    ELSE NoMatch

\* _bare_repl
_bare_repl(m) == m.prefix \o Anchor(_normalize_href(m.url), m.url)

RECURSIVE SubBare(_, _)
SubBare(t, i) ==
    LET js == {j \in i..Len(t) : BareMatchAt(t, j).ok}
    IN  IF js = {}
        THEN From(t, i)
        ELSE LET m == BareMatchAt(t, Min(js))
             IN  SubSeq(t, i, Min(js) - 1) \o _bare_repl(m) \o SubBare(t, m.end + 1)

\* line 1195: "<a " in html_markup.lower()
HasAnchorTag(t) == Contains(lowerStr(t), <<"<", "a", " ">>)

\* markdown, then angle-bracket, then bare URLs, on text without "<a "
_autolink_plain_urls_and_markdown(t) ==
    IF t = <<>> \/ HasAnchorTag(t)
    THEN t
    ELSE SubBare(SubAngle(SubMd(t, 1), 1), 1)

\* os.environ.get(name, default)
environ_get(name, default) == IF name \in DOMAIN environ THEN environ[name] ELSE default

\* line 32: os.environ.get("PRESERVE_MODEL_HTML", "0").strip() == "1"
PRESERVE_MODEL_HTML == strip(environ_get("PRESERVE_MODEL_HTML", <<"0">>), Space) = <<"1">>

\* the rewriter without line 1139
RewriteAlways(t) == IF t = <<>> THEN t ELSE a_tag_sub(_autolink_plain_urls_and_markdown(t))

\* lines 1135-1140 return the input as it is; otherwise the pre-pass, then
\* a_tag_pattern.sub(_replacer, html_markup)
_rewrite_links_in_html(t) ==
    IF t = <<>> \/ PRESERVE_MODEL_HTML
    THEN t
    ELSE a_tag_sub(_autolink_plain_urls_and_markdown(t))

(***************************************************************************)
(* Python values.  A payload is a dict parsed from JSON: each value is a   *)
(* record that carries its type next to its content: a str its characters *)
(* (val), a list its elements (elems), a dict its keys and their values    *)
(* (items).                                                                *)
(***************************************************************************)
None == [type |-> "NoneType"]

Str(s) == [type |-> "str", val |-> s]

List(xs) == [type |-> "list", elems |-> xs]

Dict(d) == [type |-> "dict", items |-> d]

Bool(b) == [type |-> "bool", truth |-> b]

Int(n) == [type |-> "int", num |-> n]

\* bool(v)
Truthy(v) ==
    CASE v.type = "NoneType" -> FALSE
      [] v.type = "dict" -> DOMAIN v.items /= {}
      [] v.type = "list" -> v.elems /= <<>>
      [] v.type = "str" -> v.val /= <<>>
      [] v.type = "bool" -> v.truth
      [] v.type = "int" -> v.num /= 0

\* d.get(key, default), and d.get(key)
get(d, key, default) == IF key \in DOMAIN d.items THEN d.items[key] ELSE default

get_(d, key) == get(d, key, None)

\* (d.get(key, default) or default), for a default that is a str
get_or(d, key, default) ==
    IF Truthy(get(d, key, Str(default))) THEN get(d, key, Str(default)).val ELSE default

\* d with d[key] = v
set(d, key, v) ==
    Dict([k \in DOMAIN d.items \cup {key} |-> IF k = key THEN v ELSE d.items[k]])

(***************************************************************************)
(* _render_html_from_structured                                            *)
(***************************************************************************)
DEFAULT_TITLE == <<"W","o","r","k","d","a","y"," ","H","C","M"," ","+"," ","A","I"," ","U+2013"," ","B","r","i","e","f">>

\* _li
_li(content) == <<"<","l","i",">">> \o content \o <<"<","/","l","i",">">>

\* lines 1254-1258: the text of one highlight
HighlightText(headline, why, url) ==
    <<"<","s","t","r","o","n","g",">">>
      \o (IF url /= <<>>
          THEN Anchor(url, IF headline /= <<>> THEN headline ELSE url)
          ELSE headline)
      \o <<"<","/","s","t","r","o","n","g",">">>
      \o (IF why /= <<>> THEN <<":"," ">> \o why ELSE <<>>)

\* lines 1273-1275
CompetitorText(competitor, move, implication) ==
    <<"<","s","t","r","o","n","g",">">> \o competitor \o <<"<","/","s","t","r","o","n","g",">",":"," ">> \o move
      \o (IF implication /= <<>> THEN <<" ","U+2013"," ">> \o implication ELSE <<>>)

\* lines 1291-1294
EnablementText(skill, outcome, res_url) ==
    <<"<","s","t","r","o","n","g",">">> \o skill \o <<":","<","/","s","t","r","o","n","g",">"," ">>
      \o (IF res_url /= <<>> THEN Anchor(res_url, escape(<<"R","e","s","o","u","r","c","e">>)) ELSE <<"R","e","s","o","u","r","c","e">>)
      \o (IF outcome /= <<>> THEN <<" ","U+2013"," ">> \o outcome ELSE <<>>)

\* line 1321
RiskText(risk, mit) ==
    IF mit /= <<>> THEN <<"<","s","t","r","o","n","g",">">> \o risk \o <<"<","/","s","t","r","o","n","g",">",":"," ">> \o mit ELSE risk

\* lines 1334-1337: a source without url yields no item
SourceItem(title, url) == IF url /= <<>> THEN _li(Anchor(url, title)) ELSE <<>>

\* the list item a record of a section yields; nothing for a record of
\* another type than the section takes (the isinstance tests)
SectionItem(section, item) ==
    CASE section = "actions_next_week" ->
            IF item.type = "str" THEN _li(escape(item.val)) ELSE <<>>
      [] item.type /= "dict" -> <<>>
      [] section = "highlights" ->
            _li(HighlightText(escape(get_or(item, "headline", <<>>)),
                              escape(get_or(item, "why_it_matters", <<>>)),
                              _normalize_href(get_or(item, "source_url", <<>>))))
      [] section = "competitive_watch" ->
            _li(CompetitorText(escape(get_or(item, "competitor", <<>>)),
                               escape(get_or(item, "move", <<>>)),
                               escape(get_or(item, "implication", <<>>))))
      [] section = "enablement" ->
            _li(EnablementText(escape(get_or(item, "skill", <<>>)),
                               escape(get_or(item, "90_day_outcome", <<>>)),
                               _normalize_href(get_or(item, "resource_url", <<>>))))
      [] section = "risks" ->
            _li(RiskText(escape(get_or(item, "risk", <<>>)),
                         escape(get_or(item, "mitigation", <<>>))))
      [] section = "sources" ->
            SourceItem(escape(get_or(item, "title", <<"S","o","u","r","c","e">>)),
                       _normalize_href(get_or(item, "url", <<>>)))

\* "".join(items)
RECURSIVE SectionItems(_, _)
SectionItems(section, xs) ==
    IF xs = <<>>
    THEN <<>>
    ELSE SectionItem(section, Head(xs)) \o SectionItems(section, Tail(xs))

\* payload.get(section) or [], when it is a list
SectionList(p, section) ==
    IF get_(p, section).type = "list" THEN get_(p, section).elems ELSE <<>>

\* the structured fields of a payload
Sections ==
    {"highlights", "competitive_watch", "enablement", "actions_next_week", "risks", "sources"}

SectionHeader ==
    [section \in {"highlights", "competitive_watch", "enablement",
                  "actions_next_week", "risks", "sources"} |->
        CASE section = "highlights" -> <<"H","i","g","h","l","i","g","h","t","s">>
          [] section = "competitive_watch" -> <<"C","o","m","p","e","t","i","t","i","v","e"," ","W","a","t","c","h">>
          [] section = "enablement" -> <<"E","n","a","b","l","e","m","e","n","t">>
          [] section = "actions_next_week" -> <<"A","c","t","i","o","n","s"," ","f","o","r"," ","N","e","x","t"," ","W","e","e","k">>
          [] section = "risks" -> <<"R","i","s","k","s"," ","&"," ","M","i","t","i","g","a","t","i","o","n","s">>
          [] section = "sources" -> <<"A","l","l"," ","S","o","u","r","c","e","s">>]

\* the block with its header whatever the items
SectionBlockAlways(section, items) ==
    <<"<","h","3",">">> \o SectionHeader[section] \o <<"<","/","h","3",">","<","u","l",">">> \o items \o <<"<","/","u","l",">">>

\* "<h3>...</h3><ul>" + "".join(items) + "</ul>" if items, else ""
SectionBlock(section, items) ==
    IF items = <<>>
    THEN <<>>
    ELSE <<"<","h","3",">">> \o SectionHeader[section] \o <<"<","/","h","3",">","<","u","l",">">> \o items \o <<"<","/","u","l",">">>

SectionHtml(p, section) ==
    SectionBlock(section, SectionItems(section, SectionList(p, section)))

\* the records of the sources list that are dicts
SourceDicts(p) == SelectSeq(SectionList(p, "sources"), LAMBDA s : s.type = "dict")

\* title when line 1342 reads it: the loop over the sources assigns the same
\* variable (line 1334), so the title of the last source replaces the
\* payload's
RenderTitle(p) ==
    IF SourceDicts(p) = <<>>
    THEN escape(get_or(p, "title", DEFAULT_TITLE))
    ELSE escape(get_or(SourceDicts(p)[Len(SourceDicts(p))], "title", <<"S","o","u","r","c","e">>))

\* lines 1344-1345
PriorityFocus(priority_focus) ==
    IF priority_focus /= <<>>
    THEN <<"<","p",">","<","s","t","r","o","n","g",">","W","h","a","t"," ","m","a","t","t","e","r","s"," ","n","o","w",":","<","/","s","t","r","o","n","g",">"," ">> \o priority_focus \o <<"<","/","p",">">>
    ELSE <<>>

SectionOrder ==
    <<"highlights", "competitive_watch", "enablement", "actions_next_week", "risks", "sources">>

\* lines 1341-1356; the body holds the <h2> in every case, so the text after
\* "or" in line 1356 is never returned
_render_html_from_structured(p) ==
    <<"<","h","2",">">> \o RenderTitle(p) \o <<"<","/","h","2",">">>
      \o PriorityFocus(escape(get_or(p, "priority_focus", <<>>)))
      \o SectionHtml(p, "highlights")
      \o SectionHtml(p, "competitive_watch")
      \o SectionHtml(p, "enablement")
      \o SectionHtml(p, "actions_next_week")
      \o SectionHtml(p, "risks")
      \o SectionHtml(p, "sources")

(***************************************************************************)
(* str(), str.title() and json.dumps(obj, ensure_ascii=False, indent=2).   *)
(* A dict of the model keeps no insertion order: its keys are written in   *)
(* the order of KeyOrder, which is the order the code inserts them in.     *)
(***************************************************************************)
RECURSIVE DecStr(_)
DecStr(n) == IF n < 10 THEN <<Chr(48 + n)>> ELSE DecStr(n \div 10) \o <<Chr(48 + (n % 10))>>

\* str(v) for the values a payload field takes here
str(v) ==
    CASE v.type = "str" -> v.val
      [] v.type = "NoneType" -> <<"N","o","n","e">>
      [] v.type = "bool" -> IF v.truth THEN <<"T","r","u","e">> ELSE <<"F","a","l","s","e">>
      [] v.type = "int" -> DecStr(v.num)

upper(c) == IF c \in Lowers THEN Chr(Ord[c] - 32) ELSE c

\* str.title(): a letter after a letter is lowered, another letter raised
title(s) ==
    [i \in 1..Len(s) |-> IF i > 1 /\ s[i - 1] \in Alpha THEN lower(s[i]) ELSE upper(s[i])]

\* str.replace(old, new) for a single character old
replace(s, old, new) == [i \in 1..Len(s) |-> IF s[i] = old THEN new ELSE s[i]]

KeyOrder ==
    <<"type", "run_date", "title", "priority_focus", "highlights", "competitive_watch",
      "enablement", "actions_next_week", "risks", "sources", "html_body",
      "plain_text_body", "headline", "why_it_matters", "source_url", "competitor",
      "move", "implication", "skill", "resource_url", "90_day_outcome", "risk",
      "mitigation", "query", "search_depth", "time_range", "max_results",
      "include_answer", "include_raw_content", "include_domains", "Content-Type",
      "x-api-key", "Authorization", "results", "url", "content", "snippet",
      "source", "published_date", "date", "id", "model", "output_text", "output",
      "choices", "message", "role", "text", "error">>

\* the characters of a key
KeyName ==
       ("type" :> <<"t","y","p","e">>)
    @@ ("run_date" :> <<"r","u","n","_","d","a","t","e">>)
    @@ ("title" :> <<"t","i","t","l","e">>)
    @@ ("priority_focus" :> <<"p","r","i","o","r","i","t","y","_","f","o","c","u","s">>)
    @@ ("highlights" :> <<"h","i","g","h","l","i","g","h","t","s">>)
    @@ ("competitive_watch" :> <<"c","o","m","p","e","t","i","t","i","v","e","_","w","a","t","c","h">>)
    @@ ("enablement" :> <<"e","n","a","b","l","e","m","e","n","t">>)
    @@ ("actions_next_week" :> <<"a","c","t","i","o","n","s","_","n","e","x","t","_","w","e","e","k">>)
    @@ ("risks" :> <<"r","i","s","k","s">>)
    @@ ("sources" :> <<"s","o","u","r","c","e","s">>)
    @@ ("html_body" :> <<"h","t","m","l","_","b","o","d","y">>)
    @@ ("plain_text_body" :> <<"p","l","a","i","n","_","t","e","x","t","_","b","o","d","y">>)
    @@ ("headline" :> <<"h","e","a","d","l","i","n","e">>)
    @@ ("why_it_matters" :> <<"w","h","y","_","i","t","_","m","a","t","t","e","r","s">>)
    @@ ("source_url" :> <<"s","o","u","r","c","e","_","u","r","l">>)
    @@ ("competitor" :> <<"c","o","m","p","e","t","i","t","o","r">>)
    @@ ("move" :> <<"m","o","v","e">>)
    @@ ("implication" :> <<"i","m","p","l","i","c","a","t","i","o","n">>)
    @@ ("skill" :> <<"s","k","i","l","l">>)
    @@ ("resource_url" :> <<"r","e","s","o","u","r","c","e","_","u","r","l">>)
    @@ ("90_day_outcome" :> <<"9","0","_","d","a","y","_","o","u","t","c","o","m","e">>)
    @@ ("risk" :> <<"r","i","s","k">>)
    @@ ("mitigation" :> <<"m","i","t","i","g","a","t","i","o","n">>)
    @@ ("query" :> <<"q","u","e","r","y">>)
    @@ ("search_depth" :> <<"s","e","a","r","c","h","_","d","e","p","t","h">>)
    @@ ("time_range" :> <<"t","i","m","e","_","r","a","n","g","e">>)
    @@ ("max_results" :> <<"m","a","x","_","r","e","s","u","l","t","s">>)
    @@ ("include_answer" :> <<"i","n","c","l","u","d","e","_","a","n","s","w","e","r">>)
    @@ ("include_raw_content" :> <<"i","n","c","l","u","d","e","_","r","a","w","_","c","o","n","t","e","n","t">>)
    @@ ("include_domains" :> <<"i","n","c","l","u","d","e","_","d","o","m","a","i","n","s">>)
    @@ ("Content-Type" :> <<"C","o","n","t","e","n","t","-","T","y","p","e">>)
    @@ ("x-api-key" :> <<"x","-","a","p","i","-","k","e","y">>)
    @@ ("Authorization" :> <<"A","u","t","h","o","r","i","z","a","t","i","o","n">>)
    @@ ("results" :> <<"r","e","s","u","l","t","s">>)
    @@ ("url" :> <<"u","r","l">>)
    @@ ("content" :> <<"c","o","n","t","e","n","t">>)
    @@ ("source" :> <<"s","o","u","r","c","e">>)
    @@ ("published_date" :> <<"p","u","b","l","i","s","h","e","d","_","d","a","t","e">>)
    @@ ("snippet" :> <<"s","n","i","p","p","e","t">>)
    @@ ("date" :> <<"d","a","t","e">>)
    @@ ("id" :> <<"i","d">>)
    @@ ("model" :> <<"m","o","d","e","l">>)
    @@ ("output_text" :> <<"o","u","t","p","u","t","_","t","e","x","t">>)
    @@ ("output" :> <<"o","u","t","p","u","t">>)
    @@ ("choices" :> <<"c","h","o","i","c","e","s">>)
    @@ ("message" :> <<"m","e","s","s","a","g","e">>)
    @@ ("role" :> <<"r","o","l","e">>)
    @@ ("text" :> <<"t","e","x","t">>)
    @@ ("error" :> <<"e","r","r","o","r">>)

\* the keys of a dict, in order
Keys(d) == SelectSeq(KeyOrder, LAMBDA k : k \in DOMAIN d.items)

JsonEscape(c) ==
    CASE c = "\"" -> <<"\\","\"">>
      [] c = "\\" -> <<"\\","\\">>
      [] c = "\n" -> <<"\\","n">>
      [] c = "\r" -> <<"\\","r">>
      [] c = "\t" -> <<"\\","t">>
      [] c = "\f" -> <<"\\","f">>
      [] OTHER -> <<c>>

RECURSIVE JsonChars(_)
JsonChars(s) == IF s = <<>> THEN <<>> ELSE JsonEscape(Head(s)) \o JsonChars(Tail(s))

JsonString(s) == <<"\"">> \o JsonChars(s) \o <<"\"">>

Indent(level) == [i \in 1..(2 * level) |-> " "]

RECURSIVE json_dumps(_, _)
RECURSIVE JsonMembers(_, _, _)
RECURSIVE JsonElements(_, _)
\* the members of d named ks, each on its line
JsonMembers(d, ks, level) ==
    IF ks = <<>>
    THEN <<>>
    ELSE Indent(level) \o JsonString(KeyName[Head(ks)]) \o <<":"," ">> \o json_dumps(d.items[Head(ks)], level)
           \o (IF Len(ks) > 1 THEN <<",">> ELSE <<>>) \o <<"\n">>
           \o JsonMembers(d, Tail(ks), level)

JsonElements(xs, level) ==
    IF xs = <<>>
    THEN <<>>
    ELSE Indent(level) \o json_dumps(Head(xs), level)
           \o (IF Len(xs) > 1 THEN <<",">> ELSE <<>>) \o <<"\n">>
           \o JsonElements(Tail(xs), level)

json_dumps(v, level) ==
    CASE v.type = "NoneType" -> <<"n","u","l","l">>
      [] v.type = "bool" -> IF v.truth THEN <<"t","r","u","e">> ELSE <<"f","a","l","s","e">>
      [] v.type = "int" -> DecStr(v.num)
      [] v.type = "str" -> JsonString(v.val)
      [] v.type = "list" ->
            IF v.elems = <<>>
            THEN <<"[","]">>
            ELSE <<"[", "\n">> \o JsonElements(v.elems, level + 1) \o Indent(level) \o <<"]">>
      [] v.type = "dict" ->
            IF DOMAIN v.items = {}
            THEN <<"{","}">>
            ELSE <<"{", "\n">> \o JsonMembers(v, Keys(v), level + 1) \o Indent(level) \o <<"}">>

(***************************************************************************)
(* write_html_to_pages.  An exception is a value of its own type: what a   *)
(* function of the program returns or raises.                              *)
(***************************************************************************)
Raise(exc) == [type |-> "exception", exc |-> exc]

\* the value of a local variable: the one element of a set of one, so that
\* what is assigned is computed once
The(S) == CHOOSE x \in S : TRUE

Raises(v) == v.type = "exception"

NO_CONTENT == <<"<","h","2",">","N","o"," ","c","o","n","t","e","n","t","<","/","h","2",">">>

\* lines 1672-1675: a value that is not a str has no lower(), and the
\* except clause answers False
lacks_anchors(html) ==
    IF Truthy(html)
    THEN html.type = "str" /\ ~Contains(lowerStr(html.val), <<"<","a"," ">>)
    ELSE TRUE

\* any(payload.get(k) for k in (...))
AnyStructured(p) == \E k \in Sections : Truthy(get_(p, k))

\* lines 1676-1677
FallbackHtml(p, html) ==
    IF (~Truthy(html) \/ lacks_anchors(html)) /\ AnyStructured(p)
    THEN Str(_render_html_from_structured(p))
    ELSE html

\* _rewrite_links_in_html called with any value: a falsy one is returned by
\* line 1136, any other one by line 1140 when the switch is on, and the
\* regular expressions reject what is not a str
RewriteValue(html) ==
    IF ~Truthy(html) \/ PRESERVE_MODEL_HTML
    THEN html
    ELSE IF html.type = "str"
         THEN Str(_rewrite_links_in_html(html.val))
         ELSE Raise("TypeError")

DEBUG_PRE(background) ==
    <<"<","p","r","e"," ","s","t","y","l","e","=","\"","w","h","i","t","e","-","s","p","a","c","e",":","p","r","e","-","w","r","a","p",";","o","v","e","r","f","l","o","w","-","x",":","a","u","t","o",";","b","o","r","d","e","r",":","1","p","x"," ","s","o","l","i","d"," ","#","d","d","d",";","p","a","d","d","i","n","g",":","1","2","p","x",";">>
      \o <<"b","o","r","d","e","r","-","r","a","d","i","u","s",":","6","p","x",";","b","a","c","k","g","r","o","u","n","d",":">> \o background \o <<";","m","a","r","g","i","n","-","t","o","p",":","1","2","p","x","\"",">">>

\* a <details> element of the debug output
Details(open, summary, background, text) ==
    <<"<","d","e","t","a","i","l","s">> \o (IF open THEN <<" ","o","p","e","n">> ELSE <<>>) \o <<">","<","s","u","m","m","a","r","y",">","<","s","t","r","o","n","g",">">> \o summary
      \o <<"<","/","s","t","r","o","n","g",">","<","/","s","u","m","m","a","r","y",">">> \o DEBUG_PRE(background) \o escape(text) \o <<"<","/","p","r","e",">","<","/","d","e","t","a","i","l","s",">">>

\* lines 1690-1724
DebugSections(debug_prompt, debug_raw, debug_content) ==
    (IF Truthy(debug_prompt)
     THEN Details(TRUE, <<"P","r","o","m","p","t"," ","s","e","n","t"," ","t","o"," ","O","p","e","n","A","I">>, <<"#","f","a","f","a","f","a">>, debug_prompt.val)
     ELSE <<>>)
      \o (IF debug_raw /= None
          THEN Details(FALSE, <<"R","a","w"," ","O","p","e","n","A","I"," ","r","e","s","p","o","n","s","e"," ","J","S","O","N">>, <<"#","f","f","f","9","e","6">>, json_dumps(debug_raw, 0))
          ELSE <<>>)
      \o (IF Truthy(debug_content) /\ ~Truthy(debug_prompt) /\ debug_raw = None
          THEN Details(TRUE, <<"M","o","d","e","l"," ","c","o","n","t","e","n","t">>, <<"#","f","a","f","a","f","a">>, str(debug_content))
          ELSE <<>>)

\* lines 1728-1736
DebugMeta(debug_live, debug_endpoint, debug_model) ==
    <<"<","h","r",">","<","h","3",">","O","p","e","n","A","I"," ","D","e","b","u","g","<","/","h","3",">","<","p",">","<","s","t","r","o","n","g",">","S","t","a","t","u","s",":","<","/","s","t","r","o","n","g",">"," ">>
      \o escape(IF Truthy(debug_live) THEN <<"L","i","v","e"," ","O","p","e","n","A","I"," ","r","e","s","p","o","n","s","e">> ELSE <<"S","t","u","b"," ","p","r","e","v","i","e","w"," ","(","n","o"," ","l","i","v","e"," ","r","e","s","p","o","n","s","e",")">>)
      \o <<" ","&","n","b","s","p",";"," ","<","s","t","r","o","n","g",">","E","n","d","p","o","i","n","t",":","<","/","s","t","r","o","n","g",">"," ">> \o escape(str(debug_endpoint))
      \o <<" ","&","n","b","s","p",";"," ","<","s","t","r","o","n","g",">","M","o","d","e","l",":","<","/","s","t","r","o","n","g",">"," ">> \o escape(str(debug_model)) \o <<"<","/","p",">">>

DebugBlockOf(sections, p) ==
    IF sections = <<>>
    THEN <<>>
    ELSE DebugMeta(get_(p, "_debug_live"), get(p, "_debug_endpoint", Str(<<"n","/","a">>)),
                   get(p, "_debug_model", Str(<<"n","/","a">>))) \o sections

debug_block(p) ==
    The({DebugBlockOf(debug_sections, p) :
            debug_sections \in {DebugSections(get(p, "_debug_prompt", Str(<<>>)), get_(p, "_debug_raw_http_json"),
                                              get(p, "_debug_content", Str(<<>>)))}})

\* ", ".join(str(d) for d in include_domains)
RECURSIVE JoinStr(_, _)
JoinStr(xs, sep) ==
    IF xs = <<>> THEN <<>>
    ELSE IF Len(xs) = 1 THEN str(Head(xs))
    ELSE str(Head(xs)) \o sep \o JoinStr(Tail(xs), sep)

Para(label, text) == <<"<","p",">","<","s","t","r","o","n","g",">">> \o label \o <<":","<","/","s","t","r","o","n","g",">"," ">> \o text \o <<"<","/","p",">">>

\* lines 1752-1826: the paragraphs and dumps of one entry
TavilyEntryBody(entry) ==
    (IF Truthy(get_(entry, "time_range"))
     THEN Para(<<"T","i","m","e"," ","r","a","n","g","e">>, escape(str(get_(entry, "time_range")))) ELSE <<>>)
      \o (IF Truthy(get_(entry, "include_domains"))
          THEN Para(<<"P","r","e","f","e","r","r","e","d"," ","d","o","m","a","i","n","s">>, escape(JoinStr(get_(entry, "include_domains").elems, <<","," ">>)))
          ELSE <<>>)
      \o (IF get_(entry, "result_count").type \in {"int", "bool"}
          THEN Para(<<"R","e","s","u","l","t"," ","c","o","u","n","t">>, str(get_(entry, "result_count")) \o <<" ","i","t","e","m">>
                      \o (IF get_(entry, "result_count") \in {Int(1), Bool(TRUE)} THEN <<>> ELSE <<"s">>))
          ELSE <<>>)
      \o (IF get_(entry, "api_key_present") /= None
          THEN Para(<<"T","a","v","i","l","y"," ","A","P","I"," ","k","e","y"," ","d","e","t","e","c","t","e","d">>,
                    IF Truthy(get_(entry, "api_key_present")) THEN <<"Y","e","s">> ELSE <<"N","o">>)
          ELSE <<>>)
      \o (IF Truthy(get_(entry, "reason"))
          THEN Para(<<"R","e","a","s","o","n">>, escape(str(get_(entry, "reason")))) ELSE <<>>)
      \o (IF Truthy(get_(entry, "error"))
          THEN Para(<<"E","r","r","o","r">>, escape(str(get_(entry, "error")))) ELSE <<>>)
      \o (IF get_(entry, "request_payload") /= None
          THEN Details(TRUE, <<"R","e","q","u","e","s","t"," ","p","a","y","l","o","a","d">>, <<"#","f","a","f","a","f","a">>, json_dumps(get_(entry, "request_payload"), 0))
          ELSE <<>>)
      \o (IF get_(entry, "request_headers") /= None
          THEN Details(FALSE, <<"R","e","q","u","e","s","t"," ","h","e","a","d","e","r","s">>, <<"#","e","e","f","5","f","f">>, json_dumps(get_(entry, "request_headers"), 0))
          ELSE <<>>)
      \o (IF get_(entry, "response_payload") /= None
          THEN Details(FALSE, <<"R","a","w"," ","T","a","v","i","l","y"," ","r","e","s","p","o","n","s","e"," ","J","S","O","N">>, <<"#","f","f","f","9","e","6">>, json_dumps(get_(entry, "response_payload"), 0))
          ELSE <<>>)

\* lines 1744-1829: the section of the entry at position idx
TavilyEntryHtml(entry, idx) ==
    IF entry.type /= "dict"
    THEN <<>>
    ELSE <<"<","d","e","t","a","i","l","s">> \o (IF idx = 1 THEN <<" ","o","p","e","n">> ELSE <<>>) \o <<">","<","s","u","m","m","a","r","y",">","<","s","t","r","o","n","g",">">>
           \o escape(IF Truthy(get(entry, "query", Str(<<>>)))
                     THEN str(get_(entry, "query"))
                     ELSE <<"S","e","a","r","c","h"," ">> \o DecStr(idx))
           \o <<"<","/","s","t","r","o","n","g",">"," ","U+2014"," ">>
           \o escape(title(replace(str(get(entry, "status", Str(<<"u","n","k","n","o","w","n">>))), "_", " ")))
           \o <<"<","/","s","u","m","m","a","r","y",">","<","d","i","v"," ","s","t","y","l","e","=","\"","m","a","r","g","i","n",":","1","2","p","x"," ","0"," ","2","4","p","x","\"",">">>
           \o TavilyEntryBody(entry) \o <<"<","/","d","i","v",">","<","/","d","e","t","a","i","l","s",">">>

RECURSIVE TavilySections(_, _)
TavilySections(entries, idx) ==
    IF idx > Len(entries)
    THEN <<>>
    ELSE TavilyEntryHtml(entries[idx], idx) \o TavilySections(entries, idx + 1)

\* lines 1739-1832
TavilyDebugOf(sections) ==
    IF sections = <<>> THEN <<>> ELSE <<"<","h","r",">","<","h","3",">","T","a","v","i","l","y"," ","D","e","b","u","g","<","/","h","3",">">> \o sections

tavily_debug_html(p) ==
    IF get_(p, "_debug_tavily").type = "list"
    THEN The({TavilyDebugOf(sections) : sections \in {TavilySections(get_(p, "_debug_tavily").elems, 1)}})
    ELSE <<>>

\* lines 1834-1835: html + debug_block + tavily_debug_html, where html that
\* is not a str cannot be added to a str
WithDebug(html, debug) ==
    IF Raises(html) \/ debug = <<>>
    THEN html
    ELSE IF html.type = "str" THEN Str(html.val \o debug) ELSE Raise("TypeError")

\* the fragment write_html_to_pages puts between <body> and </body>
PageFragment(p) ==
    The({WithDebug(html, debug) :
            html \in {RewriteValue(shown) : shown \in {FallbackHtml(p, get(p, "html_body", Str(NO_CONTENT)))}},
            debug \in {debug_block(p) \o tavily_debug_html(p)}})

\* a wrapper that has lost its <body> element
HtmlPageWithoutBody(page_title, html) ==
    <<"<","!","D","O","C","T","Y","P","E"," ","h","t","m","l",">","<","h","t","m","l",">","<","h","e","a","d",">","<","m","e","t","a"," ","c","h","a","r","s","e","t","=","'","u","t","f","-","8","'",">">>
      \o <<"<","t","i","t","l","e",">">> \o page_title \o <<"<","/","t","i","t","l","e",">">>
      \o <<"<","/","h","e","a","d",">">> \o html \o <<"<","/","h","t","m","l",">">>

\* lines 1836-1842: wrapper.format(title, html)
HtmlPage(page_title, html) ==
    <<"<","!","D","O","C","T","Y","P","E"," ","h","t","m","l",">","<","h","t","m","l",">","<","h","e","a","d",">","<","m","e","t","a"," ","c","h","a","r","s","e","t","=","'","u","t","f","-","8","'",">">>
      \o <<"<","m","e","t","a"," ","n","a","m","e","=","'","v","i","e","w","p","o","r","t","'"," ","c","o","n","t","e","n","t","=","'","w","i","d","t","h","=","d","e","v","i","c","e","-","w","i","d","t","h",",","i","n","i","t","i","a","l","-","s","c","a","l","e","=","1","'",">">>
      \o <<"<","t","i","t","l","e",">">> \o page_title \o <<"<","/","t","i","t","l","e",">">>
      \o <<"<","s","t","y","l","e",">","b","o","d","y","{","f","o","n","t","-","f","a","m","i","l","y",":","A","r","i","a","l",",","H","e","l","v","e","t","i","c","a",",","s","a","n","s","-","s","e","r","i","f",";","m","a","x","-","w","i","d","t","h",":","7","6","0","p","x",";","m","a","r","g","i","n",":","3","2","p","x"," ","a","u","t","o",";","p","a","d","d","i","n","g",":","0"," ","1","6","p","x",";","l","i","n","e","-","h","e","i","g","h","t",":","1",".","5","}","<","/","s","t","y","l","e",">">>
      \o <<"<","/","h","e","a","d",">","<","b","o","d","y",">">> \o html \o <<"<","/","b","o","d","y",">","<","/","h","t","m","l",">">>

\* line 1669
Target(run_type) == IF run_type = <<"d","a","i","l","y">> THEN <<"d","o","c","s","/","i","n","d","e","x",".","h","t","m","l">> ELSE <<"d","o","c","s","/","w","e","e","k","l","y",".","h","t","m","l">>

\* a file of the working directory
File(path, content) == [type |-> "file", path |-> path, content |-> content]

WritePageFile(path, page_title, fragment) ==
    IF Raises(fragment) THEN fragment ELSE File(path, HtmlPage(str(page_title), str(fragment)))

\* the file write_html_to_pages writes, or the exception it raises
write_html_to_pages(run_type, p) ==
    The({WritePageFile(Target(run_type),
                       get(p, "title", Str(<<"W","o","r","k","d","a","y"," ","H","C","M"," ","+"," ","A","I"," ","(">> \o run_type \o <<")">>)),
                       html) :
            html \in {PageFragment(p)}})

\* a code point that has no UTF-8 encoding: json.loads returns it for the
\* escape \ud800 of a reply
SURROGATE == "U+D800"

\* lines 1847-1848: f.write(html_page) on a file opened with encoding="utf-8"
\* raises UnicodeEncodeError when the text cannot be encoded
Encodable(text) == SURROGATE \notin Chars(text)

(***************************************************************************)
(* _postprocess_payload, write_debug_artifacts, send_email.                *)
(***************************************************************************)
\* os.environ.get(name, "").strip()
Secret(name) == strip(environ_get(name, <<>>), Space)

\* line 358: the date of the run, as the comment of the line gives it
TODAY_ET == <<"2","0","2","5","-","1","0","-","1","6">>

\* dict.setdefault(key, v)
setdefault(d, key, v) == IF key \in DOMAIN d.items THEN d ELSE set(d, key, v)

\* lines 1903-1905
PostprocessHtml(processed) ==
    IF get_(processed, "html_body").type = "str"
    THEN set(processed, "html_body", Str(_rewrite_links_in_html(get_(processed, "html_body").val)))
    ELSE processed

\* _postprocess_payload with assignments in place of the two setdefault calls
PostprocessOverriding(run_type, p) ==
    PostprocessHtml(set(set(p, "type", Str(run_type)), "run_date", Str(TODAY_ET)))

_postprocess_payload(run_type, p) ==
    PostprocessHtml(setdefault(setdefault(p, "type", Str(run_type)), "run_date", Str(TODAY_ET)))

\* d without key
pop(d, key) == Dict([k \in DOMAIN d.items \ {key} |-> d.items[k]])

DEBUG_DIR == <<"d","o","c","s","/","d","e","b","u","g">>

\* lines 1865-1871: the payload, and the raw reply when there is one, each
\* file holding the JSON text of its content
DebugArtifacts(prefix, p) ==
    <<File(prefix \o <<"-","p","a","y","l","o","a","d",".","j","s","o","n">>, pop(p, "_debug_raw_http_json"))>>
      \o (IF get_(p, "_debug_raw_http_json") /= None
          THEN <<File(prefix \o <<"-","r","a","w","-","h","t","t","p",".","j","s","o","n">>, get_(p, "_debug_raw_http_json"))>>
          ELSE <<>>)

\* ts = str(payload.get("run_date") or TODAY_ET)
DebugStamp(run_date) == IF Truthy(run_date) THEN str(run_date) ELSE TODAY_ET

\* a name with a "/" in the date has no directory to be opened in, and the
\* except clause of line 1872 drops the error
write_debug_artifacts(run_type, p) ==
    IF "/" \in Chars(DebugStamp(get_(p, "run_date")))
    THEN <<>>
    ELSE DebugArtifacts(DEBUG_DIR \o <<"/">> \o run_type \o <<"-">> \o DebugStamp(get_(p, "run_date")), p)

\* line 1878
EmailSecrets ==
    /\ Secret("EMAIL_FROM") /= <<>>
    /\ Secret("EMAIL_TO") /= <<>>
    /\ Secret("GMAIL_USERNAME") /= <<>>
    /\ Secret("GMAIL_APP_PASSWORD") /= <<>>

\* line 1881
Subject(type, page_title, run_date) ==
    str(type) \o <<" ","R","e","s","e","a","r","c","h"," ","U+2013"," ">> \o str(page_title) \o <<" ","U+2013"," ">> \o str(run_date)

\* MIMEText(body_html, "html", "utf-8"): a body that is neither a str nor
\* falsy has no encode()
Message(subject, body_html) ==
    IF Raises(body_html)
    THEN body_html
    ELSE IF Truthy(body_html) /\ body_html.type /= "str"
         THEN Raise("AttributeError")
         ELSE [type |-> "message", subject |-> subject, body |-> body_html]

\* lines 1881-1887: the message send_email builds, or the exception it raises
send_email(p) ==
    Message(Subject(get(p, "type", Str(<<"d","a","i","l","y">>)), get(p, "title", Str(<<"W","o","r","k","d","a","y"," ","H","C","M"," ","+"," ","A","I">>)),
                    get(p, "run_date", Str(TODAY_ET))),
            RewriteValue(get(p, "html_body", Str(NO_CONTENT))))

(***************************************************************************)
(* The payloads call_openai returns without a provider reply.              *)
(***************************************************************************)
\* lines 903-928
StubHtmlBody ==
    <<"<","h","2",">","W","o","r","k","d","a","y"," ","H","C","M"," ","+"," ","A","I"," ","U+2013"," ","B","r","i","e","f","<","/","h","2",">","<","p",">","<","s","t","r","o","n","g",">","W","h","a","t"," ","m","a","t","t","e","r","s"," ","n","o","w",":","<","/","s","t","r","o","n","g",">"," ","P","r","e","v","i","e","w"," ","b","u","i","l","d"," ","g","e","n","e","r","a","t","e","d"," ","l","o","c","a","l","l","y","."," ","C","o","n","n","e","c","t"," ","O","p","e","n","A","I"," ","t","o"," ","p","o","p","u","l","a","t","e"," ","t","o","d","a","y","'","s"," ","h","e","a","d","l","i","n","e","s",".","<","/","p",">","<","h","3",">","H","i","g","h","l","i","g","h","t","s","<","/","h","3",">","<","u","l",">","<","l","i",">","<","s","t","r","o","n","g",">","W","o","r","k","d","a","y"," ","A","I"," ","o","v","e","r","v","i","e","w",":","<","/","s","t","r","o","n","g",">"," ","<","a"," ","h","r","e","f","=","\"","h","t","t","p","s",":","/","/","w","w","w",".","w","o","r","k","d","a","y",".","c","o","m","/","e","n","-","u","s","/","p","r","o","d","u","c","t","s","/","a","i","-","m","l","/","a","i",".","h","t","m","l","\"",">","w","o","r","k","d","a","y",".","c","o","m","<","/","a",">","<","/","l","i",">","<","/","u","l",">","<","h","3",">","C","o","m","p","e","t","i","t","i","v","e"," ","W","a","t","c","h","<","/","h","3",">","<","u","l",">","<","l","i",">","<","s","t","r","o","n","g",">","S","A","P"," ","S","u","c","c","e","s","s","F","a","c","t","o","r","s",":","<","/","s","t","r","o","n","g",">"," ","<","a"," ","h","r","e","f","=","\"","h","t","t","p","s",":","/","/","w","w","w",".","s","a","p",".","c","o","m","/","p","r","o","d","u","c","t","s","/","h","c","m","/","e","m","p","l","o","y","e","e","-","e","x","p","e","r","i","e","n","c","e","-","m","a","n","a","g","e","m","e","n","t","/","s","u","c","c","e","s","s","f","a","c","t","o","r","s",".","h","t","m","l","\"",">","p","r","o","d","u","c","t"," ","p","a","g","e","<","/","a",">","<","/","l","i",">","<","/","u","l",">","<","h","3",">","E","n","a","b","l","e","m","e","n","t","<","/","h","3",">","<","u","l",">","<","l","i",">","<","s","t","r","o","n","g",">","P","r","o","m","p","t"," ","e","n","g","i","n","e","e","r","i","n","g"," ","f","o","r"," ","b","r","i","e","f","s",":","<","/","s","t","r","o","n","g",">"," ","<","a"," ","h","r","e","f","=","\"","h","t","t","p","s",":","/","/","g","i","t","h","u","b",".","c","o","m","/","o","p","e","n","a","i","/","o","p","e","n","a","i","-","c","o","o","k","b","o","o","k","\"",">","O","p","e","n","A","I"," ","C","o","o","k","b","o","o","k","<","/","a",">","<","/","l","i",">","<","/","u","l",">","<","h","3",">","A","c","t","i","o","n","s"," ","f","o","r"," ","N","e","x","t"," ","W","e","e","k","<","/","h","3",">","<","u","l",">","<","l","i",">","C","o","n","n","e","c","t"," ","O","p","e","n","A","I"," ","A","P","I"," ","a","n","d"," ","s","e","t"," ","O","P","E","N","A","I","_","A","P","I","_","K","E","Y","<","/","l","i",">","<","l","i",">","R","e","v","i","e","w"," ","a","n","d"," ","r","e","f","i","n","e"," ","p","r","o","m","p","t","s"," ","a","n","d"," ","s","e","c","t","i","o","n"," ","o","r","d","e","r","i","n","g","<","/","l","i",">","<","/","u","l",">","<","h","3",">","R","i","s","k","s"," ","&"," ","M","i","t","i","g","a","t","i","o","n","s","<","/","h","3",">","<","u","l",">","<","l","i",">","<","s","t","r","o","n","g",">","A","P","I"," ","u","n","a","v","a","i","l","a","b","l","e",":","<","/","s","t","r","o","n","g",">"," ","f","a","l","l","s"," ","b","a","c","k"," ","t","o"," ","l","o","c","a","l"," ","p","r","e","v","i","e","w",";"," ","e","n","s","u","r","e"," ","G","i","t","H","u","b","/","C","I"," ","s","e","c","r","e","t","s"," ","a","r","e"," ","c","o","n","f","i","g","u","r","e","d",".","<","/","l","i",">","<","/","u","l",">","<","h","3",">","A","l","l"," ","S","o","u","r","c","e","s","<","/","h","3",">","<","u","l",">","<","l","i",">","<","a"," ","h","r","e","f","=","\"","h","t","t","p","s",":","/","/","w","w","w",".","w","o","r","k","d","a","y",".","c","o","m","/","e","n","-","u","s","/","p","r","o","d","u","c","t","s","/","a","i","-","m","l","/","a","i",".","h","t","m","l","\"",">","h","t","t","p","s",":","/","/","w","w","w",".","w","o","r","k","d","a","y",".","c","o","m","/","e","n","-","u","s","/","p","r","o","d","u","c","t","s","/","a","i","-","m","l","/","a","i",".","h","t","m","l","<","/","a",">","<","/","l","i",">","<","l","i",">","<","a"," ","h","r","e","f","=","\"","h","t","t","p","s",":","/","/","w","w","w",".","s","a","p",".","c","o","m","/","p","r","o","d","u","c","t","s","/","h","c","m","/","e","m","p","l","o","y","e","e","-","e","x","p","e","r","i","e","n","c","e","-","m","a","n","a","g","e","m","e","n","t","/","s","u","c","c","e","s","s","f","a","c","t","o","r","s",".","h","t","m","l","\"",">","h","t","t","p","s",":","/","/","w","w","w",".","s","a","p",".","c","o","m","/","p","r","o","d","u","c","t","s","/","h","c","m","/","e","m","p","l","o","y","e","e","-","e","x","p","e","r","i","e","n","c","e","-","m","a","n","a","g","e","m","e","n","t","/","s","u","c","c","e","s","s","f","a","c","t","o","r","s",".","h","t","m","l","<","/","a",">","<","/","l","i",">","<","l","i",">","<","a"," ","h","r","e","f","=","\"","h","t","t","p","s",":","/","/","g","i","t","h","u","b",".","c","o","m","/","o","p","e","n","a","i","/","o","p","e","n","a","i","-","c","o","o","k","b","o","o","k","\"",">","h","t","t","p","s",":","/","/","g","i","t","h","u","b",".","c","o","m","/","o","p","e","n","a","i","/","o","p","e","n","a","i","-","c","o","o","k","b","o","o","k","<","/","a",">","<","/","l","i",">","<","/","u","l",">">>

\* lines 975-991
StubPlainTextBody ==
    <<"W","o","r","k","d","a","y"," ","H","C","M"," ","+"," ","A","I"," ","U+2013"," ","B","r","i","e","f","\n","W","h","a","t"," ","m","a","t","t","e","r","s"," ","n","o","w",":"," ","P","r","e","v","i","e","w"," ","b","u","i","l","d"," ","g","e","n","e","r","a","t","e","d"," ","l","o","c","a","l","l","y","."," ","C","o","n","n","e","c","t"," ","O","p","e","n","A","I"," ","t","o"," ","p","o","p","u","l","a","t","e"," ","t","o","d","a","y","'","s"," ","h","e","a","d","l","i","n","e","s",".","\n","H","i","g","h","l","i","g","h","t","s",":","\n"," ","-"," ","W","o","r","k","d","a","y"," ","A","I"," ","o","v","e","r","v","i","e","w",":"," ","h","t","t","p","s",":","/","/","w","w","w",".","w","o","r","k","d","a","y",".","c","o","m","/","e","n","-","u","s","/","p","r","o","d","u","c","t","s","/","a","i","-","m","l","/","a","i",".","h","t","m","l","\n","C","o","m","p","e","t","i","t","i","v","e"," ","W","a","t","c","h",":","\n"," ","-"," ","S","A","P"," ","S","u","c","c","e","s","s","F","a","c","t","o","r","s",":"," ","h","t","t","p","s",":","/","/","w","w","w",".","s","a","p",".","c","o","m","/","p","r","o","d","u","c","t","s","/","h","c","m","/","e","m","p","l","o","y","e","e","-","e","x","p","e","r","i","e","n","c","e","-","m","a","n","a","g","e","m","e","n","t","/","s","u","c","c","e","s","s","f","a","c","t","o","r","s",".","h","t","m","l","\n","E","n","a","b","l","e","m","e","n","t",":","\n"," ","-"," ","P","r","o","m","p","t"," ","e","n","g","i","n","e","e","r","i","n","g"," ","f","o","r"," ","b","r","i","e","f","s",":"," ","h","t","t","p","s",":","/","/","g","i","t","h","u","b",".","c","o","m","/","o","p","e","n","a","i","/","o","p","e","n","a","i","-","c","o","o","k","b","o","o","k","\n","A","c","t","i","o","n","s"," ","f","o","r"," ","N","e","x","t"," ","W","e","e","k",":","\n"," ","-"," ","C","o","n","n","e","c","t"," ","O","p","e","n","A","I"," ","A","P","I"," ","a","n","d"," ","s","e","t"," ","O","P","E","N","A","I","_","A","P","I","_","K","E","Y","\n"," ","-"," ","R","e","v","i","e","w"," ","a","n","d"," ","r","e","f","i","n","e"," ","p","r","o","m","p","t","s"," ","a","n","d"," ","s","e","c","t","i","o","n"," ","o","r","d","e","r","i","n","g","\n","R","i","s","k","s"," ","&"," ","M","i","t","i","g","a","t","i","o","n","s",":","\n"," ","-"," ","A","P","I"," ","u","n","a","v","a","i","l","a","b","l","e",":"," ","f","a","l","l","s"," ","b","a","c","k"," ","t","o"," ","l","o","c","a","l"," ","p","r","e","v","i","e","w",";"," ","e","n","s","u","r","e"," ","s","e","c","r","e","t","s"," ","c","o","n","f","i","g","u","r","e","d",".","\n","A","l","l"," ","S","o","u","r","c","e","s",":","\n"," ","-"," ","h","t","t","p","s",":","/","/","w","w","w",".","w","o","r","k","d","a","y",".","c","o","m","/","e","n","-","u","s","/","p","r","o","d","u","c","t","s","/","a","i","-","m","l","/","a","i",".","h","t","m","l","\n"," ","-"," ","h","t","t","p","s",":","/","/","w","w","w",".","s","a","p",".","c","o","m","/","p","r","o","d","u","c","t","s","/","h","c","m","/","e","m","p","l","o","y","e","e","-","e","x","p","e","r","i","e","n","c","e","-","m","a","n","a","g","e","m","e","n","t","/","s","u","c","c","e","s","s","f","a","c","t","o","r","s",".","h","t","m","l","\n"," ","-"," ","h","t","t","p","s",":","/","/","g","i","t","h","u","b",".","c","o","m","/","o","p","e","n","a","i","/","o","p","e","n","a","i","-","c","o","o","k","b","o","o","k","\n">>

\* lines 889-994: the preview payload
_build_stub_payload(run_type) ==
    Dict(("type" :> Str(run_type))
      @@ ("run_date" :> Str(TODAY_ET))
      @@ ("title" :> Str(<<"W","o","r","k","d","a","y"," ","H","C","M"," ","+"," ","A","I">>))
      @@ ("priority_focus" :> Str(<<"L","o","c","a","l"," ","p","r","e","v","i","e","w"," ","i","s"," ","a","c","t","i","v","e","."," ","A","d","d"," ","O","P","E","N","A","I","_","A","P","I","_","K","E","Y"," ","t","o"," ","g","e","n","e","r","a","t","e"," ","l","i","v","e",","," ","d","a","t","e","d"," ","h","i","g","h","l","i","g","h","t","s",".">>))
      @@ ("highlights" :> List(<<Dict(("headline" :> Str(<<"W","o","r","k","d","a","y"," ","A","I"," ","U+2013"," ","p","r","o","d","u","c","t"," ","o","v","e","r","v","i","e","w"," ","(","P","u","b","l","i","s","h","e","d",":"," ","P","R","E","V","I","E","W",")">>)) @@ ("why_it_matters" :> Str(<<"E","v","e","r","g","r","e","e","n"," ","o","v","e","r","v","i","e","w"," ","t","o"," ","v","a","l","i","d","a","t","e"," ","r","e","n","d","e","r","i","n","g"," ","w","h","i","l","e"," ","A","P","I"," ","i","s"," ","d","i","s","c","o","n","n","e","c","t","e","d",".">>)) @@ ("source_url" :> Str(<<"h","t","t","p","s",":","/","/","w","w","w",".","w","o","r","k","d","a","y",".","c","o","m","/","e","n","-","u","s","/","p","r","o","d","u","c","t","s","/","a","i","-","m","l","/","a","i",".","h","t","m","l">>)))>>))
      @@ ("competitive_watch" :> List(<<Dict(("competitor" :> Str(<<"S","A","P"," ","S","u","c","c","e","s","s","F","a","c","t","o","r","s">>)) @@ ("move" :> Str(<<"A","I"," ","o","v","e","r","v","i","e","w"," ","a","n","d"," ","p","o","s","i","t","i","o","n","i","n","g">>)) @@ ("implication" :> Str(<<"T","r","a","c","k"," ","c","o","m","p","e","t","i","t","i","v","e"," ","m","e","s","s","a","g","i","n","g",";"," ","r","e","f","i","n","e"," ","D","e","l","o","i","t","t","e"," ","P","O","V"," ","w","h","e","n"," ","l","i","v","e"," ","d","a","t","a"," ","i","s"," ","e","n","a","b","l","e","d",".">>)))>>))
      @@ ("enablement" :> List(<<Dict(("skill" :> Str(<<"P","r","o","m","p","t"," ","e","n","g","i","n","e","e","r","i","n","g"," ","f","o","r"," ","r","e","s","e","a","r","c","h"," ","b","r","i","e","f","s">>)) @@ ("resource_url" :> Str(<<"h","t","t","p","s",":","/","/","g","i","t","h","u","b",".","c","o","m","/","o","p","e","n","a","i","/","o","p","e","n","a","i","-","c","o","o","k","b","o","o","k">>)) @@ ("90_day_outcome" :> Str(<<"P","u","b","l","i","s","h"," ","h","i","g","h","-","q","u","a","l","i","t","y"," ","d","a","i","l","y","/","w","e","e","k","l","y"," ","b","r","i","e","f","s"," ","r","e","l","i","a","b","l","y"," ","a","n","d"," ","s","a","f","e","l","y",".">>)))>>))
      @@ ("actions_next_week" :> List(<<Str(<<"C","o","n","n","e","c","t"," ","O","p","e","n","A","I"," ","A","P","I"," ","a","n","d"," ","s","e","c","r","e","t","s"," ","i","n"," ","C","I">>),Str(<<"T","u","n","e"," ","p","r","o","m","p","t","s"," ","a","n","d"," ","v","a","l","i","d","a","t","e"," ","l","i","n","k"," ","h","y","g","i","e","n","e">>)>>))
      @@ ("risks" :> List(<<Dict(("risk" :> Str(<<"E","x","t","e","r","n","a","l"," ","A","P","I"," ","u","n","a","v","a","i","l","a","b","l","e">>)) @@ ("mitigation" :> Str(<<"F","a","l","l","b","a","c","k"," ","t","o"," ","l","o","c","a","l"," ","p","r","e","v","i","e","w"," ","w","i","t","h","o","u","t"," ","'","s","t","u","b","'"," ","l","a","b","e","l","s">>)))>>))
      @@ ("sources" :> List(<<Dict(("title" :> Str(<<"W","o","r","k","d","a","y"," ","A","I"," ","o","v","e","r","v","i","e","w">>)) @@ ("url" :> Str(<<"h","t","t","p","s",":","/","/","w","w","w",".","w","o","r","k","d","a","y",".","c","o","m","/","e","n","-","u","s","/","p","r","o","d","u","c","t","s","/","a","i","-","m","l","/","a","i",".","h","t","m","l">>))),Dict(("title" :> Str(<<"S","A","P"," ","S","u","c","c","e","s","s","F","a","c","t","o","r","s"," ","H","C","M">>)) @@ ("url" :> Str(<<"h","t","t","p","s",":","/","/","w","w","w",".","s","a","p",".","c","o","m","/","p","r","o","d","u","c","t","s","/","h","c","m","/","e","m","p","l","o","y","e","e","-","e","x","p","e","r","i","e","n","c","e","-","m","a","n","a","g","e","m","e","n","t","/","s","u","c","c","e","s","s","f","a","c","t","o","r","s",".","h","t","m","l">>))),Dict(("title" :> Str(<<"O","p","e","n","A","I"," ","C","o","o","k","b","o","o","k">>)) @@ ("url" :> Str(<<"h","t","t","p","s",":","/","/","g","i","t","h","u","b",".","c","o","m","/","o","p","e","n","a","i","/","o","p","e","n","a","i","-","c","o","o","k","b","o","o","k">>)))>>))
      @@ ("html_body" :> Str(StubHtmlBody))
      @@ ("plain_text_body" :> Str(StubPlainTextBody)))

\* line 1000
window_desc(run_type) == IF run_type = <<"d","a","i","l","y">> THEN <<"l","a","s","t"," ","d","a","y">> ELSE <<"l","a","s","t"," ","w","e","e","k">>

\* line 1002
NoResultsMessage(run_type) ==
    <<"N","o"," ","c","r","e","d","i","b","l","e"," ","i","t","e","m","s"," ","f","o","u","n","d"," ","i","n"," ","t","h","e"," ">> \o window_desc(run_type) \o <<" ","w","i","n","d","o","w",".">>

\* lines 1003-1012
NoResultsHeading(run_type) == <<"W","o","r","k","d","a","y"," ","H","C","M"," ","+"," ","A","I"," ","U+2013"," ">> \o title(run_type) \o <<" ","B","r","i","e","f">>

\* lines 997-1026: the payload of a run that found no source
_build_no_results_payload(run_type) ==
    Dict(("type" :> Str(run_type))
      @@ ("run_date" :> Str(TODAY_ET))
      @@ ("title" :> Str(<<"N","o"," ","c","r","e","d","i","b","l","e"," ","W","o","r","k","d","a","y"," ","A","I"," ","u","p","d","a","t","e","s">>))
      @@ ("priority_focus" :> Str(NoResultsMessage(run_type)))
      @@ ("highlights" :> List(<<>>))
      @@ ("competitive_watch" :> List(<<>>))
      @@ ("enablement" :> List(<<>>))
      @@ ("actions_next_week" :> List(<<>>))
      @@ ("risks" :> List(<<>>))
      @@ ("sources" :> List(<<>>))
      @@ ("html_body" :> Str(<<"<","h","2",">">> \o NoResultsHeading(run_type) \o <<"<","/","h","2",">","<","p",">">>
                               \o escape(NoResultsMessage(run_type))
                               \o <<"<","/","p",">","<","p",">","S","o","u","r","c","e","s"," ","w","i","l","l"," ","r","e","s","u","m","e"," ","o","n","c","e"," ","n","e","w"," ","v","e","t","t","e","d"," ","u","p","d","a","t","e","s"," ","a","r","e"," ","a","v","a","i","l","a","b","l","e",".","<","/","p",">">>))
      @@ ("plain_text_body" :> Str(NoResultsHeading(run_type) \o <<"\n">> \o NoResultsMessage(run_type)
                               \o <<"\n","S","o","u","r","c","e","s"," ","w","i","l","l"," ","r","e","s","u","m","e"," ","o","n","c","e"," ","n","e","w"," ","v","e","t","t","e","d"," ","u","p","d","a","t","e","s"," ","a","r","e"," ","a","v","a","i","l","a","b","l","e",".">>)))

(***************************************************************************)
(* tavily_search and build_context.  The reply of the search service and   *)
(* the outcome of the URL probes are inputs of the operators.              *)
(***************************************************************************)
\* line 38
TAVILY_API_KEY == Secret("TAVILY_API_KEY")

\* lines 41-46
TAVILY_SEARCH_DEPTH ==
    IF lowerStr(strip(environ_get("TAVILY_SEARCH_DEPTH", <<"a","d","v","a","n","c","e","d">>), Space)) \in {<<"b","a","s","i","c">>, <<"a","d","v","a","n","c","e","d">>}
    THEN lowerStr(strip(environ_get("TAVILY_SEARCH_DEPTH", <<"a","d","v","a","n","c","e","d">>), Space))
    ELSE <<"a","d","v","a","n","c","e","d">>

\* lines 49-85: the first three of the default domains; the list is passed
\* on to the search service and shown in the debug block, nothing else
\* reads it.  TAVILY_PREFERRED_DOMAINS is not set.
PREFERRED_DOMAINS == List(<<Str(<<"w","o","r","k","d","a","y",".","c","o","m">>), Str(<<"b","l","o","g",".","w","o","r","k","d","a","y",".","c","o","m">>), Str(<<"n","e","w","s","r","o","o","m",".","w","o","r","k","d","a","y",".","c","o","m">>)>>)

Stars(n) == [i \in 1..n |-> "*"]

\* lines 190-198, visible = 4
_mask_secret(secret) ==
    IF strip(secret, Space) = <<>> THEN <<>>
    ELSE IF Len(strip(secret, Space)) <= 4 THEN Stars(Len(strip(secret, Space)))
    ELSE SubSeq(strip(secret, Space), 1, 4) \o <<"U+2026">> \o Stars(Len(strip(secret, Space)) - 4)

NoItems == [k \in {} |-> None]

\* lines 497-505
TavilyEntry(query, time_range, include_domains, max_results) ==
    Dict(("query" :> Str(query)) @@ ("time_range" :> Str(time_range))
      @@ ("search_depth" :> Str(TAVILY_SEARCH_DEPTH)) @@ ("max_results" :> Int(max_results))
      @@ (IF Truthy(include_domains) THEN "include_domains" :> include_domains ELSE NoItems)
      @@ ("api_key_present" :> Bool(TAVILY_API_KEY /= <<>>)))

\* lines 524-533
TavilyRequestPayload(query, time_range, include_domains, max_results) ==
    Dict(("query" :> Str(query)) @@ ("search_depth" :> Str(TAVILY_SEARCH_DEPTH))
      @@ ("time_range" :> Str(time_range)) @@ ("max_results" :> Int(max_results))
      @@ ("include_answer" :> Bool(FALSE)) @@ ("include_raw_content" :> Bool(FALSE))
      @@ (IF Truthy(include_domains) THEN "include_domains" :> include_domains ELSE NoItems))

\* lines 535-539
TavilyRequestHeaders ==
    Dict(("Content-Type" :> Str(<<"a","p","p","l","i","c","a","t","i","o","n","/","j","s","o","n">>))
      @@ ("x-api-key" :> Str(_mask_secret(TAVILY_API_KEY)))
      @@ ("Authorization" :> Str(<<"B","e","a","r","e","r"," ">> \o _mask_secret(TAVILY_API_KEY))))

\* the entry once the request has been built
TavilyRequested(query, time_range, include_domains, max_results) ==
    set(set(TavilyEntry(query, time_range, include_domains, max_results),
            "request_payload", TavilyRequestPayload(query, time_range, include_domains, max_results)),
        "request_headers", TavilyRequestHeaders)

\* (item.get(key) or "")
OrEmpty(item, key) == IF Truthy(get_(item, key)) THEN get_(item, key) ELSE Str(<<>>)

\* the .strip() of lines 573-581 has a str to work on
Strippable(item, key) == OrEmpty(item, key).type = "str"

Stripped(item, key) == strip(OrEmpty(item, key).val, Space)

\* lines 573-582: what one item of the reply does to out
ItemRaises(item) ==
    \/ item.type /= "dict"
    \/ ~Strippable(item, "url")
    \/ /\ Stripped(item, "url") /= <<>>
       /\ ~(Strippable(item, "title") /\ Strippable(item, "content") /\ Strippable(item, "source"))

ItemOut(item) ==
    Dict(("title" :> Str(Stripped(item, "title"))) @@ ("url" :> Str(Stripped(item, "url")))
      @@ ("snippet" :> Str(Stripped(item, "content"))) @@ ("source" :> Str(Stripped(item, "source")))
      @@ ("date" :> (IF Truthy(get_(item, "published_date")) THEN get_(item, "published_date") ELSE None)))

\* lines 571-582: out, or the AttributeError of an item that is no dict of
\* strings
RECURSIVE TavilyOut(_, _)
TavilyOut(items, out) ==
    IF items = <<>> THEN List(out)
    ELSE IF ItemRaises(Head(items)) THEN Raise("AttributeError")
    ELSE IF Stripped(Head(items), "url") = <<>> THEN TavilyOut(Tail(items), out)
    ELSE TavilyOut(Tail(items), Append(out, ItemOut(Head(items))))

\* data.get("results", []) or []: a reply that is no dict has no get(); the
\* loop runs over the elements of a list and over the characters of a str
ResultsOf(data) ==
    IF data.type /= "dict" THEN Raise("AttributeError")
    ELSE IF ~Truthy(get(data, "results", List(<<>>))) THEN List(<<>>)
    ELSE IF get_(data, "results").type = "list" THEN get_(data, "results")
    ELSE IF get_(data, "results").type = "str"
         THEN List([i \in 1..Len(get_(data, "results").val) |-> Str(<<get_(data, "results").val[i]>>)])
    ELSE IF get_(data, "results").type = "dict"
         THEN List(<<Str(<<>>)>>)
    ELSE Raise("TypeError")

\* lines 571-587: the entry and the results of a reply that was parsed
TavilyParsed(entry, data, out) ==
    IF Raises(out)
    THEN [entry |-> entry, out |-> out]
    ELSE [entry |-> set(set(set(set(entry, "status", Str(<<"o","k">>)), "result_count", Int(Len(out.elems))),
                            "response_payload", data), "response_results", out),
          out   |-> out]

\* lines 485-587.  reply is what the request comes to: kind "error" with
\* the text the except clause records, or kind "json" with the parsed body.
\* The value is the entry appended to debug_log, and the list returned or
\* the exception raised.
tavily_search(query, time_range, include_domains, max_results, reply) ==
    IF TAVILY_API_KEY = <<>>
    THEN [entry |-> set(set(TavilyEntry(query, time_range, include_domains, max_results),
                            "status", Str(<<"s","k","i","p","p","e","d">>)), "reason", Str(<<"m","i","s","s","i","n","g","_","a","p","i","_","k","e","y">>)),
          out   |-> List(<<>>)]
    ELSE IF reply.kind = "error"
    THEN [entry |-> set(set(TavilyRequested(query, time_range, include_domains, max_results),
                            "status", Str(<<"e","r","r","o","r">>)), "error", Str(reply.error)),
          out   |-> List(<<>>)]
    ELSE TavilyParsed(TavilyRequested(query, time_range, include_domains, max_results), reply.data,
                      IF Raises(ResultsOf(reply.data)) THEN ResultsOf(reply.data)
                      ELSE TavilyOut(ResultsOf(reply.data).elems, <<>>))

\* line 597
time_range(run_type) == IF run_type = <<"d","a","i","l","y">> THEN <<"d","a","y">> ELSE <<"w","e","e","k">>

\* lines 785-788
TrackingParams ==
    {<<"u","t","m","_","s","o","u","r","c","e">>, <<"u","t","m","_","m","e","d","i","u","m">>, <<"u","t","m","_","c","a","m","p","a","i","g","n">>, <<"u","t","m","_","t","e","r","m">>, <<"u","t","m","_","c","o","n","t","e","n","t">>,
     <<"g","c","l","i","d">>, <<"f","b","c","l","i","d">>, <<"m","s","c","l","k","i","d">>, <<"o","c","i","d">>, <<"s","c","_","c","i","d">>}

\* lines 789-798: a pair of the query is kept unless it is empty or its
\* name is a tracking parameter
QueryKeep(kv) == kv /= <<>> /\ lowerStr(Before(kv, "=")) \notin TrackingParams

\* line 799: f"{k}={v}" if v else k
PairText(kv) ==
    IF After(kv, "=") = <<>> THEN Before(kv, "=") ELSE Before(kv, "=") \o <<"=">> \o After(kv, "=")

\* lines 789-799: the pairs that are kept, in their order
RECURSIVE KeptPairs(_)
KeptPairs(q) ==
    (IF QueryKeep(Before(q, "&")) THEN <<PairText(Before(q, "&"))>> ELSE <<>>)
      \o (IF "&" \in Chars(q) THEN KeptPairs(After(q, "&")) ELSE <<>>)

\* sep.join(xs) for strings
RECURSIVE Join(_, _)
Join(xs, sep) ==
    IF xs = <<>> THEN <<>>
    ELSE IF Len(xs) = 1 THEN Head(xs)
    ELSE Head(xs) \o sep \o Join(Tail(xs), sep)

\* lines 801-803
NormalizedParts(parts) ==
    rstrip(urlunsplit(IF parts.scheme = <<>> THEN <<"h","t","t","p","s">> ELSE parts.scheme,
                      lowerStr(parts.netloc),
                      IF parts.path = <<>> THEN <<"/">> ELSE parts.path,
                      Join(KeptPairs(parts.query), <<"&">>),
                      <<>>),
           {"/"})

\* lines 779-805
_normalize_url(url) == IF urlsplit_raises(url) THEN url ELSE NormalizedParts(urlsplit(url))

\* lines 807-811: lstrip("www.") strips the characters "w" and "."
_hostname(url) ==
    IF urlsplit_raises(url) THEN <<>> ELSE lstrip(lowerStr(urlsplit(url).netloc), {"w", "."})

Least(a, b) == IF a < b THEN a ELSE b

\* lines 813-817
_score(item) ==
    Least(Len(strip(OrEmpty(item, "title").val, Space)), 180)
      + Least(Len(strip(OrEmpty(item, "snippet").val, Space)), 400)

\* re.sub(r"\s+", " ", s)
RECURSIVE CollapseSpace(_)
CollapseSpace(s) ==
    IF s = <<>> THEN <<>>
    ELSE IF Head(s) \in Space
    THEN <<" ">> \o CollapseSpace(lstrip(s, Space))
    ELSE <<Head(s)>> \o CollapseSpace(Tail(s))

\* lines 830-833
_norm_title(s) == CollapseSpace(lowerStr(strip(s, Space)))

\* a dict that keeps the order of insertion: a sequence of keys with their
\* values
HasKey(d, key) == \E i \in 1..Len(d) : d[i].key = key

ValueAt(d, key) == d[CHOOSE i \in 1..Len(d) : d[i].key = key].item

Put(d, key, item) ==
    IF HasKey(d, key)
    THEN [i \in 1..Len(d) |-> IF d[i].key = key THEN [key |-> key, item |-> item] ELSE d[i]]
    ELSE Append(d, [key |-> key, item |-> item])

\* the same, except that on equal scores the later item replaces the earlier
PutLatest(d, key, it, kept) ==
    IF ~HasKey(d, key) THEN Put(d, key, kept)
    ELSE IF _score(it) >= _score(ValueAt(d, key)) THEN Put(d, key, kept)
    ELSE d

\* lines 825-827 and 840-842: the item is kept when the key is new or the
\* item scores higher than the one kept so far
PutBest(d, key, it, kept) ==
    IF ~HasKey(d, key) THEN Put(d, key, kept)
    ELSE IF _score(it) > _score(ValueAt(d, key)) THEN Put(d, key, kept)
    ELSE d

UrlOf(it) == get(it, "url", Str(<<>>)).val

\* lines 820-827
RECURSIVE by_url(_, _)
by_url(found, d) ==
    IF found = <<>> THEN d
    ELSE IF _normalize_url(UrlOf(Head(found))) = <<>> THEN by_url(Tail(found), d)
    ELSE by_url(Tail(found),
                PutBest(d, _normalize_url(UrlOf(Head(found))), Head(found),
                        set(Head(found), "url", Str(_normalize_url(UrlOf(Head(found)))))))

\* lines 835-842
RECURSIVE host_title_best(_, _)
host_title_best(items, d) ==
    IF items = <<>> THEN d
    ELSE host_title_best(Tail(items),
                         PutBest(d, <<_hostname(UrlOf(Head(items))), _norm_title(get(Head(items), "title", Str(<<>>)).val)>>,
                                 Head(items), Head(items)))

Values(d) == [i \in 1..Len(d) |-> d[i].item]

\* line 844
deduped(found) == Values(host_title_best(Values(by_url(found, <<>>)), <<>>))

\* lines 869-876: the items whose URL answers the probe with a 2xx status
validated(items, reachable) == SelectSeq(items, LAMBDA it : UrlOf(it) /= <<>> /\ UrlOf(it) \in reachable)

\* line 879
final_items(found, reachable) ==
    IF validated(deduped(found), reachable) /= <<>>
    THEN validated(deduped(found), reachable)
    ELSE deduped(found)

NO_SEARCH_RESULTS == <<"N","O","_","S","E","A","R","C","H","_","R","E","S","U","L","T","S">>

\* line 885
ContextLine(i, it) == DecStr(i) \o <<"."," ">> \o get_(it, "title").val \o <<" ","U+2014"," ">> \o get_(it, "url").val

\* lines 881-886
context_text(items) ==
    IF items = <<>> THEN NO_SEARCH_RESULTS
    ELSE Join([i \in 1..Len(items) |-> ContextLine(i, items[i])], <<"\n">>)

(***************************************************************************)
(* call_openai: prompts, candidate models, payload variants, and what a    *)
(* reply of the provider comes to.                                         *)
(***************************************************************************)
\* line 25
OPENAI_API_KEY == Secret("OPENAI_API_KEY")

\* line 29
OPENAI_MODEL == strip(environ_get("OPENAI_MODEL", <<"g","p","t","-","4",".","1">>), Space)

\* line 33
OPENAI_REQUIRE_LIVE == strip(environ_get("OPENAI_REQUIRE_LIVE", <<"0">>), Space) = <<"1">>

\* line 360: seven days before TODAY_ET
WEEK_START_ET == <<"2","0","2","5","-","1","0","-","0","9">>

\* lines 363-367: the first five lines of the prompt
SYSTEM_PROMPT_DAILY ==
    <<"Y","o","u"," ","a","r","e"," ","U+201C","D","a","n"," ","U+2013"," ","W","o","r","k","d","a","y"," ","A","I"," ","R","e","s","e","a","r","c","h"," ","A","g","e","n","t",".","U+201D"," ","\n","P","r","o","d","u","c","e"," ","a"," ","c","o","m","p","r","e","h","e","n","s","i","v","e"," ","J","S","O","N"," ","o","b","j","e","c","t"," ","t","h","a","t"," ","m","a","t","c","h","e","s"," ","t","h","e"," ","s","c","h","e","m","a"," ","I"," ","w","i","l","l"," ","g","i","v","e"," ","y","o","u"," ","e","x","a","c","t","l","y",".","\n","\n","D","A","T","E"," ","C","O","N","T","E","X","T"," ","(","E","T",")","\n","-"," ","T","O","D","A","Y","_","E","T"," ","="," ">> \o TODAY_ET

\* lines 399-403: the first five lines of the prompt
SYSTEM_PROMPT_WEEKLY ==
    <<"Y","o","u"," ","a","r","e"," ","U+201C","D","a","n"," ","U+2013"," ","W","o","r","k","d","a","y"," ","A","I"," ","R","e","s","e","a","r","c","h"," ","A","g","e","n","t",".","U+201D"," ","\n","P","r","o","d","u","c","e"," ","a"," ","c","o","m","p","r","e","h","e","n","s","i","v","e"," ","J","S","O","N"," ","o","b","j","e","c","t"," ","t","h","a","t"," ","m","a","t","c","h","e","s"," ","t","h","e"," ","s","c","h","e","m","a"," ","I"," ","w","i","l","l"," ","g","i","v","e"," ","y","o","u"," ","e","x","a","c","t","l","y",".","\n","\n","D","A","T","E"," ","W","I","N","D","O","W"," ","(","E","T",")","\n","-"," ","W","E","E","K","_","S","T","A","R","T","_","E","T"," ","="," ">> \o WEEK_START_ET

\* lines 438-480: the first line of the text, its line on html_body and its
\* line on run_date
USER_PROMPT_SCHEMA ==
    <<"R","e","t","u","r","n"," ","J","S","O","N"," ","O","N","L","Y"," ","i","n"," ","t","h","i","s"," ","e","x","a","c","t"," ","s","h","a","p","e"," ","(","n","o"," ","c","o","d","e"," ","f","e","n","c","e","s",","," ","n","o"," ","e","x","t","r","a"," ","t","e","x","t",")",":","\n"," "," ","\"","h","t","m","l","_","b","o","d","y","\"",":"," ","\"","<","h","2",">","U+2026","<","/","h","2",">"," ","(","w","e","l","l","-","f","o","r","m","a","t","t","e","d"," ","H","T","M","L"," ","w","i","t","h"," ","<","a"," ","h","r","e","f","=","\"","h","t","t","p","s",":","/","/","U+2026","\"",">","l","i","n","k","s","<","/","a",">",";"," ","n","o"," ","s","c","r","i","p","t","s","/","e","x","t","e","r","n","a","l"," ","C","S","S",")","\"",",","\n","-"," ","S","e","t"," ","\"","r","u","n","_","d","a","t","e","\""," ","t","o"," ","T","O","D","A","Y","_","E","T"," ","="," ">> \o TODAY_ET \o <<".">>

\* lines 1029-1036
_make_user_prompt(text) ==
    <<"U","s","e"," ","t","h","e"," ","f","o","l","l","o","w","i","n","g"," ","v","e","t","t","e","d"," ","s","o","u","r","c","e","s"," ","t","o"," ","c","r","a","f","t"," ","t","h","e"," ","b","r","i","e","f",".","\n","S","O","U","R","C","E"," ","L","I","S","T"," ","(","y","o","u"," ","m","u","s","t"," ","O","N","L","Y"," ","c","i","t","e"," ","t","h","e","s","e",";"," ","d","o"," ","n","o","t"," ","f","a","b","r","i","c","a","t","e"," ","n","e","w"," ","s","o","u","r","c","e","s"," ","o","r"," ","U","R","L","s",")",":","\n">>
      \o text \o <<"\n","\n">> \o USER_PROMPT_SCHEMA

\* line 1382
system_prompt(run_type) == IF run_type = <<"d","a","i","l","y">> THEN SYSTEM_PROMPT_DAILY ELSE SYSTEM_PROMPT_WEEKLY

\* line 1384
combined_prompt(run_type, text) == system_prompt(run_type) \o <<"\n","\n">> \o _make_user_prompt(text)

\* the elements of xs in their order, each once
RECURSIVE Unique(_, _)
Unique(xs, seen) ==
    IF xs = <<>> THEN <<>>
    ELSE IF Head(xs) \in seen THEN Unique(Tail(xs), seen)
    ELSE <<Head(xs)>> \o Unique(Tail(xs), seen \cup {Head(xs)})

\* lines 1386-1401: the configured model, then the fallbacks, without the
\* empty name and without repetition
AllCandidateModels ==
    Unique(SelectSeq(<<OPENAI_MODEL, <<"g","p","t","-","4",".","1">>, <<"g","p","t","-","4",".","1","-","m","i","n","i">>, <<"g","p","t","-","4","o","-","m","i","n","i">>, <<"g","p","t","-","4","o">>, <<"o","4","-","m","i","n","i">>>>,
                     LAMBDA m : m /= <<>>), {})

\* the candidates that are tried: the first MaxModels of the list
MaxModels == 2

candidate_models == SubSeq(AllCandidateModels, 1, Least(MaxModels, Len(AllCandidateModels)))

\* lines 201-215: a payload is told from another by its content
_unique_payload_variants(payloads) == Unique(payloads, {})

\* lines 218-295: the payloads by what sets them apart, the shape of the
\* input and the text format
_responses_payload_variants(model) ==
    _unique_payload_variants(
        <<[model |-> model, input |-> "string", format |-> "json_schema"],
          [model |-> model, input |-> "string", format |-> "json_schema_nested"],
          [model |-> model, input |-> "string", format |-> "json_object"],
          [model |-> model, input |-> "string", format |-> "none"],
          [model |-> model, input |-> "messages", format |-> "json_schema"],
          [model |-> model, input |-> "messages", format |-> "none"]>>)

\* lines 298-324
_chat_payload_variants(model) ==
    _unique_payload_variants(
        <<[model |-> model, input |-> "messages", format |-> "json_object"],
          [model |-> model, input |-> "messages", format |-> "none"]>>)

\* isinstance(v, str) and v.strip()
IsText(v) == v.type = "str" /\ strip(v.val, Space) /= <<>>

\* a or b
Or(a, b) == IF Truthy(a) THEN a ELSE b

\* lines 1453-1460: the first text of the blocks of a content list
RECURSIVE BlockText(_)
BlockText(blocks) ==
    IF blocks = <<>> THEN None
    ELSE IF IsText(Head(blocks)) THEN Head(blocks)
    ELSE IF Head(blocks).type = "dict" /\ IsText(Or(get_(Head(blocks), "text"), get_(Head(blocks), "content")))
    THEN Or(get_(Head(blocks), "text"), get_(Head(blocks), "content"))
    ELSE BlockText(Tail(blocks))

\* lines 1447-1460: the text one item of the output gives, or None
ItemText(item) ==
    IF IsText(item) THEN item
    ELSE IF item.type /= "dict" THEN None
    ELSE IF IsText(Or(get_(item, "content"), get_(item, "text")))
    THEN Or(get_(item, "content"), get_(item, "text"))
    ELSE IF get_(item, "content").type = "list" THEN BlockText(get_(item, "content").elems)
    ELSE None

\* lines 1444-1460: the first text of the items
RECURSIVE OutputText(_)
OutputText(items) ==
    IF items = <<>> THEN None
    ELSE IF ItemText(Head(items)) /= None THEN ItemText(Head(items))
    ELSE OutputText(Tail(items))

\* data["choices"][0]["message"]["content"], or the exception of a reply
\* that has no such path
ChoiceContent(data) ==
    IF data.type /= "dict" THEN Raise("TypeError")
    ELSE IF "choices" \notin DOMAIN data.items THEN Raise("KeyError")
    ELSE IF get_(data, "choices").type /= "list" THEN Raise("TypeError")
    ELSE IF get_(data, "choices").elems = <<>> THEN Raise("IndexError")
    ELSE IF get_(data, "choices").elems[1].type /= "dict" THEN Raise("TypeError")
    ELSE IF "message" \notin DOMAIN get_(data, "choices").elems[1].items THEN Raise("KeyError")
    ELSE IF get_(get_(data, "choices").elems[1], "message").type /= "dict" THEN Raise("TypeError")
    ELSE IF "content" \notin DOMAIN get_(get_(data, "choices").elems[1], "message").items THEN Raise("KeyError")
    ELSE get_(get_(get_(data, "choices").elems[1], "message"), "content")

\* lines 1434-1438: the output of a nested response takes the place of data
Unwrapped(data) ==
    IF get_(data, "response").type = "dict" /\ Truthy(get_(get_(data, "response"), "output"))
    THEN Dict("output" :> get_(get_(data, "response"), "output"))
    ELSE data

\* lines 1440-1467, for the data of line 1440
TextOfOutput(data) ==
    IF "output" \in DOMAIN data.items /\ IsText(get_(data, "output")) THEN get_(data, "output")
    ELSE IF "output" \in DOMAIN data.items /\ get_(data, "output").type = "list"
            /\ OutputText(get_(data, "output").elems) /= None
    THEN OutputText(get_(data, "output").elems)
    ELSE IF Raises(ChoiceContent(data)) THEN None
    ELSE ChoiceContent(data)

\* lines 1426-1468
_extract_text_from_responses_api_payload(data) ==
    IF data.type /= "dict" THEN None
    ELSE IF IsText(get_(data, "output_text")) THEN get_(data, "output_text")
    ELSE TextOfOutput(Unwrapped(data))

JsonSpace == {" ", "\t", "\n", "\r"}

\* json.loads(text): the document whose JSON text is text, whitespace around
\* it aside; documents are the values whose texts are told from other texts
json_loads(text, documents) ==
    IF \E v \in documents : json_dumps(v, 0) = strip(text, JsonSpace)
    THEN CHOOSE v \in documents : json_dumps(v, 0) = strip(text, JsonSpace)
    ELSE Raise("JSONDecodeError")

\* text.split("\n")[1:]
AfterFirstLine(text) == IF "\n" \in Chars(text) THEN After(text, "\n") ELSE <<>>

\* the index of the last "\n" of text, 0 if none
LastNewline(text) ==
    IF "\n" \in Chars(text) THEN CHOOSE i \in 1..Len(text) : text[i] = "\n" /\ \A j \in (i + 1)..Len(text) : text[j] /= "\n"
    ELSE 0

\* lines 1482-1484: the lines without the last one when it is a fence
WithoutClosingFence(body, had_lines) ==
    IF had_lines /\ startswith(strip(From(body, LastNewline(body) + 1), Space), <<"U+0060","U+0060","U+0060">>)
    THEN SubSeq(body, 1, LastNewline(body) - 1)
    ELSE body

\* lines 1478-1485: text without its code fence
Unfenced(text) ==
    IF startswith(text, <<"U+0060","U+0060","U+0060">>)
    THEN strip(WithoutClosingFence(AfterFirstLine(text), "\n" \in Chars(text)), Space)
    ELSE text

\* text.rfind("}")
LastBrace(text) ==
    IF "}" \in Chars(text) THEN CHOOSE i \in 1..Len(text) : text[i] = "}" /\ \A j \in (i + 1)..Len(text) : text[j] /= "}"
    ELSE 0

\* lines 1491-1499
BracedJson(text, documents) ==
    IF FindIn(text, {"{"}, 1) > 0 /\ LastBrace(text) > FindIn(text, {"{"}, 1)
    THEN json_loads(SubSeq(text, FindIn(text, {"{"}, 1), LastBrace(text)), documents)
    ELSE Raise("JSONDecodeError")

\* lines 1478-1499
CoerceStripped(text, documents) ==
    IF startswith(text, <<"U+0060","U+0060","U+0060">>) /\ ~Raises(json_loads(Unfenced(text), documents))
    THEN json_loads(Unfenced(text), documents)
    ELSE BracedJson(Unfenced(text), documents)

\* lines 1470-1499; json.loads raises TypeError for a content that is no str
_coerce_json(content, documents) ==
    IF content.type /= "str" THEN Raise("TypeError")
    ELSE IF ~Raises(json_loads(content.val, documents)) THEN json_loads(content.val, documents)
    ELSE CoerceStripped(strip(content.val, Space), documents)

\* d.update(f)
update(d, f) == Dict(f @@ d.items)

\* lines 1369-1377
NoResultsReturn(run_type, ctx, debug) ==
    update(_build_no_results_payload(run_type),
           ("_debug_endpoint" :> Str(<<"n","o","-","s","e","a","r","c","h","-","r","e","s","u","l","t","s">>))
        @@ ("_debug_model" :> None)
        @@ ("_debug_prompt" :> Str(<<"O","p","e","n","A","I"," ","s","k","i","p","p","e","d",":"," ","n","o"," ","c","r","e","d","i","b","l","e"," ","T","a","v","i","l","y"," ","s","o","u","r","c","e","s"," ","a","v","a","i","l","a","b","l","e",".">>))
        @@ ("_debug_live" :> Bool(FALSE))
        @@ ("_debug_context_sources" :> ctx.results)
        @@ ("_debug_context_text" :> Str(ctx.text))
        @@ ("_debug_tavily" :> List(debug)))

\* lines 1406-1416, 1636-1644 and 1652-1661
\* the same return with the mark of a live reply
StubReturnLive(run_type, model, ctx, debug) ==
    update(_build_stub_payload(run_type),
           ("_debug_endpoint" :> Str(<<"s","t","u","b">>))
        @@ ("_debug_model" :> Str(model))
        @@ ("_debug_prompt" :> Str(combined_prompt(run_type, ctx.text)))
        @@ ("_debug_live" :> Bool(TRUE))
        @@ ("_debug_context_sources" :> ctx.results)
        @@ ("_debug_context_text" :> Str(ctx.text))
        @@ ("_debug_tavily" :> List(debug)))

StubReturn(run_type, model, ctx, debug) ==
    update(_build_stub_payload(run_type),
           ("_debug_endpoint" :> Str(<<"s","t","u","b">>))
        @@ ("_debug_model" :> Str(model))
        @@ ("_debug_prompt" :> Str(combined_prompt(run_type, ctx.text)))
        @@ ("_debug_live" :> Bool(FALSE))
        @@ ("_debug_context_sources" :> ctx.results)
        @@ ("_debug_context_text" :> Str(ctx.text))
        @@ ("_debug_tavily" :> List(debug)))

\* line 1409
StubModel == IF OPENAI_MODEL /= <<>> THEN OPENAI_MODEL ELSE candidate_models[1]

\* lines 1542-1549 and 1602-1610: the Chat Completions branch keeps the
\* search log, the Responses branch does not
LiveKeys(p, endpoint, model, run_type, data, content, ctx, debug) ==
    update(p,
           ("_debug_endpoint" :> Str(IF endpoint = "responses" THEN <<"r","e","s","p","o","n","s","e","s">> ELSE <<"c","h","a","t">>))
        @@ ("_debug_model" :> Str(model))
        @@ ("_debug_prompt" :> Str(combined_prompt(run_type, ctx.text)))
        @@ ("_debug_raw_http_json" :> data)
        @@ ("_debug_content" :> content)
        @@ ("_debug_live" :> Bool(TRUE))
        @@ ("_debug_context_sources" :> ctx.results)
        @@ ("_debug_context_text" :> Str(ctx.text))
        @@ (IF endpoint = "chat" THEN "_debug_tavily" :> List(debug) ELSE NoItems))

\* lines 1551-1557 and 1611-1617: json.loads(json.dumps(payload)) of a
\* payload of dicts with str keys, lists, str, int, bool and None is a copy
WithParsedCopy(p) == set(p, "_debug_parsed_from_content", p)

\* lines 1537-1540 and 1597-1601: the content of the reply, or the
\* RuntimeError of a reply without one
ContentOf(endpoint, data) ==
    IF endpoint = "responses"
    THEN IF Truthy(_extract_text_from_responses_api_payload(data))
         THEN _extract_text_from_responses_api_payload(data)
         ELSE Raise("RuntimeError")
    ELSE IF Raises(ChoiceContent(data)) THEN Raise("RuntimeError") ELSE ChoiceContent(data)

\* lines 1541-1542 and 1601-1602: item assignment needs a dict
ParsedPayload(content, documents) ==
    IF Raises(content) THEN content
    ELSE IF Raises(_coerce_json(content, documents)) THEN _coerce_json(content, documents)
    ELSE IF _coerce_json(content, documents).type /= "dict" THEN Raise("TypeError")
    ELSE _coerce_json(content, documents)

\* lines 1537-1558 and 1597-1618: the payload a parsed reply gives, or the
\* exception
LiveResult(endpoint, model, run_type, data, ctx, debug, documents) ==
    IF Raises(ParsedPayload(ContentOf(endpoint, data), documents))
    THEN ParsedPayload(ContentOf(endpoint, data), documents)
    ELSE WithParsedCopy(LiveKeys(ParsedPayload(ContentOf(endpoint, data), documents), endpoint, model,
                                 run_type, data, ContentOf(endpoint, data), ctx, debug))

\* lines 1513-1558 and 1578-1618: what a reply comes to.  A reply is of kind
\* "transport" (no reply at all), "status" (raise_for_status raises for its
\* status), "body" (a 2xx reply whose body resp.json() cannot read) or "json"
\* (a 2xx reply with its parsed body).
ReplyResult(reply, endpoint, model, run_type, ctx, debug, documents) ==
    CASE reply.kind = "transport" -> Raise("ConnectionError")
      [] reply.kind = "status" -> Raise("HTTPError")
      [] reply.kind = "body" -> Raise("JSONDecodeError")
      [] reply.kind = "json" -> LiveResult(endpoint, model, run_type, reply.data, ctx, debug, documents)

\* lines 1507-1510 and 1571-1573
Variants(endpoint, model) ==
    IF endpoint = "responses" THEN _responses_payload_variants(model) ELSE _chat_payload_variants(model)

\* the next variant tried after any HTTP error status
TriesNextVariantOnStatus(reply, variant, variants) ==
    reply.kind = "status" /\ variant < Len(variants)

\* the next variant tried after a 400 without looking whether one is left
TriesNextVariantPastLast(reply, variant, variants) ==
    reply.kind = "status" /\ reply.status = 400 /\ variant <= Len(variants)

\* lines 1526-1534 and 1590-1598: the next variant is tried
TriesNextVariant(reply, variant, variants) ==
    reply.kind = "status" /\ reply.status = 400 /\ variant < Len(variants)

\* a chain that starts every model with Chat Completions
FirstEndpointChat(m) == "chat"

\* the first endpoint of a model in a mode (lines 1506 and 1570)
FirstEndpoint(m) == IF m = "chat" THEN "chat" ELSE "responses"

\* lines 621-658 and 672-676: the first three queries of each list
_daily_queries ==
    <<<<"W","o","r","k","d","a","y"," ","a","g","e","n","t","i","c"," ","A","I"," ","H","C","M">>,
      <<"s","i","t","e",":","b","l","o","g",".","w","o","r","k","d","a","y",".","c","o","m"," ","(","a","g","e","n","t","i","c"," ","O","R"," ","a","u","t","o","n","o","m","o","u","s"," ","O","R"," ","c","o","p","i","l","o","t","s"," ","O","R"," ","A","I",")"," ","W","o","r","k","d","a","y"," ","H","C","M">>,
      <<"s","i","t","e",":","n","e","w","s","r","o","o","m",".","w","o","r","k","d","a","y",".","c","o","m"," ","(","A","I"," ","O","R"," ","a","g","e","n","t",")"," ","a","n","n","o","u","n","c","e","m","e","n","t">>>>

_weekly_queries ==
    <<<<"A","g","e","n","t","i","c"," ","A","I"," ","i","n"," ","S","a","a","S"," ","e","n","t","e","r","p","r","i","s","e"," ","p","a","t","t","e","r","n","s"," ","o","r","c","h","e","s","t","r","a","t","i","o","n">>,
      <<"A","u","t","o","n","o","m","o","u","s"," ","a","g","e","n","t","s"," ","H","R"," ","t","e","c","h"," ","g","o","v","e","r","n","a","n","c","e"," ","R","O","I"," ","c","a","s","e"," ","s","t","u","d","i","e","s">>,
      <<"R","A","G"," ","o","r","c","h","e","s","t","r","a","t","i","o","n"," ","H","R"," ","d","a","t","a"," ","W","o","r","k","d","a","y"," ","i","n","t","e","g","r","a","t","i","o","n","s">>>>

\* the queries that are made: the first MaxQueries of the list
MaxQueries == 2

\* lines 743-747
queries(run_type) ==
    SubSeq(IF run_type = <<"d","a","i","l","y">> THEN _daily_queries ELSE _weekly_queries, 1, Least(MaxQueries, 3))

\* line 765
broaden_threshold == 8

(***************************************************************************)
(* Inputs.  An href value is a prefix, a body and up to MaxTrail trailing  *)
(* characters; a fragment is one anchor tag with its surroundings, or up   *)
(* to MaxPieces pieces of text without anchors.                            *)
(***************************************************************************)
MaxTrail == 1
MaxPieces == 2
MaxAttrs == 1

\* all sequences over S of length at most n
SeqsUpTo(S, n) == UNION {[1..k -> S] : k \in 0..n}

RECURSIVE Concat(_)
Concat(ss) == IF ss = <<>> THEN <<>> ELSE Head(ss) \o Concat(Tail(ss))

HrefPrefixes ==
    { <<>>,
      <<"h","t","t","p",":","/","/">>,
      <<"h","t","t","p","s",":","/","/">>,
      <<"/","/">>,
      <<"w","w","w",".">>,
      <<"h","t","t","p","s",":","/">>,
      <<"h","t","t","p",":","/">>,
      <<"m","a","i","l","t","o",":">>,
      <<"t","e","l",":">>,
      <<"#">>,
      <<"/">>,
      <<"j","a","v","a","s","c","r","i","p","t",":">>,
      <<"f","t","p",":","/","/">> }

Domains ==
    { <<"a",".","c","o">>,
      <<"w","o","r","k","d","a","y",".","c","o","m">>,
      <<"A",".","b","-","c",".","C","o">> }

Paths ==
    { <<>>,
      <<"/">>,
      <<"/","r","e","s","o","u","r","c","e","s">>,
      <<"/","p"," ","q">>,
      <<"/","n","e","w","s","/","2","0","2","4","/","u","p","d","a","t","e">>,
      <<"/","x","%","2","E">>,
      <<"/","x","%","2","C">>,
      <<"/","?","q","=","1","&","a","m","p",";","a","m","p",";","r">>,
      <<"/","a","%","2","5","2","0","b">> }

OtherBodies ==
    { <<>>,
      <<"f","o","o">>,
      <<"x","@","y",".","z">>,
      <<"a","\"","b",".","c","o","/","p">>,
      <<"a","U+201D","b",".","c","o","/","p">>,
      <<"a","&","q","u","o","t",";","b",".","c","o","/","p">>,
      <<"[","/","\"","p">>,
      <<"a",".","c","o",":","8","0","/","p">>,
      <<"a",".","c","o","?","q">>,
      <<"n","e","w","s","/","2","0","2","4","/","u","p","d","a","t","e">>,
      <<"/","/","e","x","a","m","p","l","e",".","c","o","m","/","p","a","g","e">>,
      <<"&","#","4","7",";","x">>,
      <<"\t","/">> }

TrailChars ==
    { <<".">>,
      <<")">>,
      <<"U+201D">>,
      <<"#">>,
      <<"/">> }

\* a domain followed by a path: the bare domains when nothing precedes them
DomainBodies == {d \o p : d \in Domains, p \in Paths}

HrefBodies == DomainBodies \cup OtherBodies

HrefInputs ==
    {p \o b \o Concat(t) : p \in HrefPrefixes, b \in HrefBodies, t \in SeqsUpTo(TrailChars, MaxTrail)}

AnchorVals ==
    { <<"/","/","e","x","a","m","p","l","e",".","c","o","m","/","p","a","g","e">>,
      <<"w","o","r","k","d","a","y",".","c","o","m","/","r","e","s","o","u","r","c","e","s">>,
      <<"/","n","e","w","s","/","2","0","2","4","/","u","p","d","a","t","e">>,
      <<"/","p",".">>,
      <<"h","t","t","p","s",":","/","/","a",".","c","o","/","p"," ","q">>,
      <<"h","t","t","p","s",":","/","/","a",".","c","o","/","x","%","2","C">>,
      <<"a",".","c","o","/","?","q","=","1","&","a","m","p",";","a","m","p",";","r">>,
      <<"h","t","t","p",":","/","/","a","&","q","u","o","t",";","b",".","c","o","/">>,
      <<"h","t","t","p",":","/","/","a","U+201D","b",".","c","o","/">>,
      <<"#","f">>,
      <<"m","a","i","l","t","o",":","x","@","y",".","z">>,
      <<"f","o","o">> }

\* the ways an href value is delimited: double quotes, single quotes, none
Delims ==
    { <<"\"">>,
      <<"'">>,
      <<>> }

EqualsSigns ==
    { <<"=">>,
      <<" ","="," ">> }

\* the whitespace between the tag name and the first attribute
AfterTagName ==
    { <<" ">>,
      <<"\n">> }

OtherAttrs ==
    { <<"c","l","a","s","s","=","\"","c","\"">>,
      <<"i","d","=","i">>,
      <<"t","a","r","g","e","t","=","\"","_","t","o","p","\"">>,
      <<"r","e","l","=","\"","x","\"">>,
      <<"d","a","t","a","-","t","a","r","g","e","t","=","\"","m","\"">>,
      <<"d","a","t","a","-","h","r","e","f","=","\"","/","m",".","\"">> }

Trailers ==
    { <<"<","/","a",">">>,
      <<"<","/","a",">"," ","h","t","t","p","s",":","/","/","b",".","c","o">> }

TextPieces ==
    { <<"s","e","e"," ">>,
      <<"h","t","t","p","s",":","/","/","a",".","c","o","/","x">>,
      <<"h","t","t","p","s",":","/","/","a",".","c","o","/","x",".">>,
      <<"[","t","]","(","h","t","t","p","s",":","/","/","a",".","c","o",")">>,
      <<"[","s","e","e"," ","h","t","t","p","s",":","/","/","x",".","c","o","]","(","h","t","t","p","s",":","/","/","y",".","c","o",")">>,
      <<"<","h","t","t","p","s",":","/","/","a",".","c","o",">">>,
      <<"&","l","t",";","h","t","t","p","s",":","/","/","a",".","c","o","&","g","t",";">>,
      <<"<","b",">","x","<","/","b",">">>,
      <<"(">>,
      <<")">> }

RECURSIVE JoinAttrs(_)
JoinAttrs(as) == IF as = <<>> THEN <<>> ELSE <<" ">> \o Head(as) \o JoinAttrs(Tail(as))

\* one anchor: k of the other attributes come before the href attribute
AnchorTag(sp, as, k, eq, q, val) ==
    <<"<", "a">> \o sp
    \o (IF k = 0 THEN <<>> ELSE Tail(JoinAttrs(SubSeq(as, 1, k))) \o <<" ">>)
    \o <<"h", "r", "e", "f">> \o eq \o q \o val \o q
    \o JoinAttrs(SubSeq(as, k + 1, Len(as))) \o <<">">>

\* the other attributes of an anchor and how many of them precede the href
AttrLayouts ==
    UNION {{<<as, k>> : k \in 0..Len(as)} : as \in SeqsUpTo(OtherAttrs, MaxAttrs)}

AnchorFragments ==
    {AnchorTag(sp, l[1], l[2], eq, q, val) \o <<"L", "i", "n", "k">> \o tr :
        sp \in AfterTagName, l \in AttrLayouts, eq \in EqualsSigns,
        q \in Delims, val \in AnchorVals, tr \in Trailers}

TextFragments == {Concat(ps) : ps \in SeqsUpTo(TextPieces, MaxPieces)}

Fragments == AnchorFragments \cup TextFragments

\* an environment that sets no variable the module reads
NoEnviron == [n \in {} |-> <<>>]

\* values of PRESERVE_MODEL_HTML in the environment
PreserveValues ==
    { <<"1">>,
      <<"0">>,
      <<" ", "1", "\n">>,
      <<>>,
      <<"t", "r", "u", "e">> }

PreserveEnvirons ==
    {NoEnviron} \cup {[n \in {"PRESERVE_MODEL_HTML"} |-> v] : v \in PreserveValues}

\* the switch unset, and set to "1"
SwitchEnvirons == {NoEnviron, [n \in {"PRESERVE_MODEL_HTML"} |-> <<"1">>]}

\* the fragments whose anchor has no attribute but href
PlainFragments ==
    {AnchorTag(<<" ">>, <<>>, 0, eq, q, val) \o <<"L", "i", "n", "k">> \o tr :
        eq \in EqualsSigns, q \in Delims, val \in AnchorVals, tr \in Trailers}

\* href values that urlsplit rejects, next to ones it accepts
RejectedUrls ==
    { <<"h","t","t","p",":","/","/","[","x","/">>,
      <<"h","t","t","p","s",":","/","/","a","]","b","/","p">>,
      <<"/","/","[">>,
      <<"h","t","t","p",":","/","/","[",":",":","1","]","/","p">>,
      <<"w","w","w",".","[","/","x"," ","y">>,
      <<"h","t","t","p",":","/","/","[",":",":","1","/","p">>,
      <<>> }

\* unbalanced brackets, malformed tags and links whose URL urlsplit rejects
MalformedPieces ==
    { <<"(">>,
      <<"[","t","]","(">>,
      <<"<","a"," ","h","r","e","f","=">>,
      <<"<","a"," ","h","r","e","f","=","\"","x">>,
      <<"<","a"," ","h","r","e","f","=","\"","h","t","t","p",":","/","/","[","x","/","\"",">","L","<","/","a",">">>,
      <<"<","a"," ","h","r","e","f","=","/","/","a","]","b",">","L","<","/","a",">">>,
      <<"[","t","]","(","h","t","t","p",":","/","/","[","x","/",")">>,
      <<"<","h","t","t","p","s",":","/","/","a","]","b",">">>,
      <<" ","h","t","t","p",":","/","/","[",":",":","1">>,
      <<"<","a"," ",">">> }

MalformedFragments == {Concat(ps) : ps \in SeqsUpTo(MalformedPieces, MaxPieces)}

(***************************************************************************)
(* Payloads.  A section of a payload is missing, empty, holds a record the *)
(* section cannot use, or holds usable records.                            *)
(***************************************************************************)
Missing == [type |-> "missing"]

Highlight1 ==
    Dict(("headline" :> Str(<<"W","o","r","k","d","a","y"," ","A","I"," ","&"," ","a","g","e","n","t","s">>))
         @@ ("why_it_matters" :> Str(<<"F","a","s","t","e","r"," ","<","H","R",">"," ","s","e","r","v","i","c","e">>))
         @@ ("source_url" :> Str(<<"w","o","r","k","d","a","y",".","c","o","m","/","a"," ","b">>)))

Highlight2 == Dict(("headline" :> Str(<<>>)) @@ ("source_url" :> Str(<<"h","t","t","p","s",":","/","/","x",".","c","o","m","/","n">>)))

Competitor1 ==
    Dict(("competitor" :> Str(<<"S","A","P">>)) @@ ("move" :> Str(<<"J","o","u","l","e">>)) @@ ("implication" :> Str(<<"p","a","r","i","t","y">>)))

Enablement1 ==
    Dict(("skill" :> Str(<<"P","r","o","m","p","t","i","n","g">>)) @@ ("90_day_outcome" :> Str(<<"p","i","l","o","t">>))
         @@ ("resource_url" :> Str(<<"w","w","w",".","o","p","e","n","a","i",".","c","o","m">>)))

Risk1 == Dict(("risk" :> Str(<<"D","r","i","f","t">>)) @@ ("mitigation" :> Str(<<"R","e","v","i","e","w">>)))

Source1 == Dict(("title" :> Str(<<"B","l","o","g">>)) @@ ("url" :> Str(<<"h","t","t","p","s",":","/","/","b","l","o","g",".","w","o","r","k","d","a","y",".","c","o","m","/","p">>)))

SourceNoUrl == Dict("title" :> Str(<<"M","e","m","o">>))

SectionValues ==
    [section \in Sections |->
        CASE section = "highlights" ->
                {Missing, List(<<>>), List(<<Str(<<"n","/","a">>)>>), List(<<Highlight1, Highlight2>>)}
          [] section = "competitive_watch" ->
                {Missing, List(<<None>>), List(<<Competitor1>>)}
          [] section = "enablement" -> {Missing, None, List(<<Enablement1>>)}
          [] section = "actions_next_week" ->
                {Missing, List(<<Risk1>>), List(<<Str(<<"B","r","i","e","f"," ","t","h","e"," ","<","t","e","a","m",">">>)>>)}
          [] section = "risks" -> {List(<<>>), List(<<Str(<<"n","/","a">>)>>), List(<<Risk1>>)}
          [] section = "sources" ->
                {Missing, List(<<SourceNoUrl>>), List(<<Source1>>), Source1}]

\* the dict with the keys of f that are not missing
DictOf(f) == Dict([k \in {k \in DOMAIN f : f[k] /= Missing} |-> f[k]])

StructuredFields ==
    {("highlights" :> h) @@ ("competitive_watch" :> c) @@ ("enablement" :> e)
       @@ ("actions_next_week" :> a) @@ ("risks" :> r) @@ ("sources" :> s) :
        h \in SectionValues["highlights"], c \in SectionValues["competitive_watch"],
        e \in SectionValues["enablement"], a \in SectionValues["actions_next_week"],
        r \in SectionValues["risks"], s \in SectionValues["sources"]}

RenderPayloads ==
    {DictOf(f @@ ("priority_focus" :> pf)) : f \in StructuredFields, pf \in {Missing, Str(<<"A","g","e","n","t","s">>)}}

(***************************************************************************)
(* Payloads at the publish stage: what a provider may answer for html_body *)
(* and run_date, with and without the keys call_openai adds to a live      *)
(* reply.                                                                  *)
(***************************************************************************)
HtmlBodies ==
    {Missing, None, Str(<<>>),
     Str(<<"<","p",">","Q","u","i","e","t"," ","d","a","y","<","/","p",">">>),
     Str(<<"<","p",">","S","e","e"," ","h","t","t","p","s",":","/","/","x",".","c","o","m","/","n","<","/","p",">">>),
     Str(<<"<","p",">","<","a"," ","h","r","e","f","=","\"","w","o","r","k","d","a","y",".","c","o","m","/","a","\"",">","W","<","/","a",">","<","/","p",">">>),
     Str(<<"<","a","\n","h","r","e","f","=","\"","h","t","t","p","s",":","/","/","a",".","c","o","m","/","\"",">","A","<","/","a",">">>)}

StructuredSamples ==
    {<<>>,
     "highlights" :> List(<<>>),
     "highlights" :> List(<<Str(<<"n","/","a">>)>>),
     "highlights" :> List(<<Highlight1, Highlight2>>),
     "sources" :> List(<<Source1>>)}

YESTERDAY == <<"2","0","2","5","-","1","0","-","1","5">>

RunDates == {Missing, None, Str(TODAY_ET), Str(YESTERDAY)}

\* the keys lines 1542-1547 add to a reply of the Responses endpoint
LiveDebug ==
    ("_debug_endpoint" :> Str(<<"r","e","s","p","o","n","s","e","s">>))
      @@ ("_debug_model" :> Str(<<"g","p","t","-","4",".","1">>))
      @@ ("_debug_prompt" :> Str(<<"R","e","t","u","r","n"," ","J","S","O","N"," ","w","i","t","h"," ","\"","h","t","m","l","_","b","o","d","y","\"",":"," ","\"","<","a"," ","h","r","e","f","=","\"","h","t","t","p","s",":","/","/","U+2026","\"",">","l","i","n","k","s","<","/","a",">","\"">>))
      @@ ("_debug_raw_http_json" :> Dict(("id" :> Str(<<"r","e","s","p","_","1">>)) @@ ("output_text" :> Str(<<"{","\"","t","i","t","l","e","\"",":"," ","\"","B","r","i","e","f","\"","}">>))))
      @@ ("_debug_content" :> Str(<<"{","\"","t","i","t","l","e","\"",":"," ","\"","B","r","i","e","f","\"","}">>))
      @@ ("_debug_live" :> Bool(TRUE))

\* payloads in which the provider has set type and run_date itself
TypedPayloads ==
    {DictOf(("title" :> Str(<<"B","r","i","e","f">>)) @@ ("html_body" :> Str(<<"<","p",">","S","e","e"," ","h","t","t","p","s",":","/","/","x",".","c","o","m","/","n","<","/","p",">">>))
              @@ ("type" :> t) @@ ("run_date" :> d)) :
        t \in {Str(<<"d","a","i","l","y">>), Str(<<"w","e","e","k","l","y">>), None}, d \in RunDates}

\* the arguments of write_html_to_pages: payloads with and without a body,
\* one of them with a body that UTF-8 cannot encode
WriteBodies ==
    HtmlBodies \cup {Str(<<"<","p",">","S","e","e"," ","<","a"," ","h","r","e","f","=","\"","h","t","t","p","s",":","/","/","x",".","c","o","m","/","n","\"",">","x","<","/","a",">"," ">> \o <<SURROGATE>> \o <<"<","/","p",">">>)}

WritePayloads ==
    {DictOf(("title" :> Str(<<"B","r","i","e","f">>)) @@ ("html_body" :> h) @@ s) : h \in WriteBodies, s \in StructuredSamples}

\* the page an earlier run published
PublishedBefore == HtmlPage(<<"B","r","i","e","f">>, <<"<","p",">","Y","e","s","t","e","r","d","a","y","<","/","p",">">>)

PublishPayloads ==
    {DictOf(("title" :> Str(<<"B","r","i","e","f">>)) @@ ("html_body" :> h) @@ ("run_date" :> d) @@ s @@ g) :
        h \in HtmlBodies, d \in RunDates, s \in StructuredSamples, g \in {<<>>, LiveDebug}}

EmailEnviron ==
    ("EMAIL_FROM" :> <<"a","@","x",".","i","o">>) @@ ("EMAIL_TO" :> <<"b","@","x",".","i","o",","," ","c","@","x",".","i","o">>)
      @@ ("GMAIL_USERNAME" :> <<"a","@","x",".","i","o">>) @@ ("GMAIL_APP_PASSWORD" :> <<"p","w">>)

PublishEnvirons ==
    {NoEnviron, EmailEnviron, EmailEnviron @@ ("PRESERVE_MODEL_HTML" :> <<"1">>)}

RunTypes == {<<"d","a","i","l","y">>, <<"w","e","e","k","l","y">>}

\* items of a reply of the search service: two writings of one page, a
\* page of another host, a page with a title only, an item without a link
TavilyItemA ==
    Dict(("title" :> Str(<<" ","W","o","r","k","d","a","y"," ","a","g","e","n","t","s"," ">>)) @@ ("url" :> Str(<<"h","t","t","p","s",":","/","/","b","l","o","g",".","w","o","r","k","d","a","y",".","c","o","m","/","a","?","u","t","m","_","s","o","u","r","c","e","=","x">>))
      @@ ("content" :> Str(<<"N","e","w"," ","a","g","e","n","t","s">>)) @@ ("published_date" :> Str(YESTERDAY)))

TavilyItemB ==
    Dict(("title" :> Str(<<"W","o","r","k","d","a","y"," ","a","g","e","n","t","s"," ","l","a","u","n","c","h">>)) @@ ("url" :> Str(<<"h","t","t","p","s",":","/","/","B","l","o","g",".","W","o","r","k","d","a","y",".","c","o","m","/","a","/">>))
      @@ ("content" :> Str(<<"A","g","e","n","t","s"," ","f","o","r"," ","H","R"," ","&"," ","f","i","n","a","n","c","e">>)) @@ ("source" :> Str(<<"b","l","o","g">>)))

TavilyItemC ==
    Dict(("title" :> Str(<<"S","A","P"," ","U+201C","J","o","u","l","e","U+201D">>)) @@ ("url" :> Str(<<"h","t","t","p","s",":","/","/","w","w","w",".","s","a","p",".","c","o","m","/","j","o","u","l","e">>)) @@ ("content" :> None))

TavilyItemD == Dict(("title" :> Str(<<"U","K","G">>)) @@ ("url" :> Str(<<"h","t","t","p","s",":","/","/","x",".","c","o","m","/","n","#","t","o","p">>)))

TavilyItemNoUrl == Dict(("title" :> Str(<<"N","o"," ","l","i","n","k">>)) @@ ("url" :> Str(<<" ">>)))

TavilyReply(items) == [kind |-> "json", data |-> Dict("results" :> List(items))]

ReplyNone == TavilyReply(<<>>)

ReplyOne == TavilyReply(<<TavilyItemA>>)

ReplyMany == TavilyReply(<<TavilyItemA, TavilyItemNoUrl, TavilyItemB, TavilyItemC, TavilyItemD>>)

ReplyError == [kind |-> "error", error |-> <<"H","T","T","P"," ","4","2","9",":"," ","r","a","t","e"," ","l","i","m","i","t">>]

\* a reply that is no object, and one whose results are no objects
ReplyList == [kind |-> "json", data |-> List(<<>>)]

ReplyStrings == TavilyReply(<<Str(<<"h","t","t","p","s",":","/","/","x",".","c","o","m","/","n">>)>>)

\* three pages of one host under one title, the last two with equal scores
TavilyItemE ==
    Dict(("title" :> Str(<<"W","o","r","k","d","a","y"," "," ","A","g","e","n","t","s">>)) @@ ("url" :> Str(<<"h","t","t","p","s",":","/","/","w","w","w",".","b","l","o","g",".","w","o","r","k","d","a","y",".","c","o","m","/","b">>)) @@ ("content" :> Str(<<"B","r","i","e","f">>)))

TavilyItemG ==
    Dict(("title" :> Str(<<"W","O","R","K","D","A","Y"," ","A","G","E","N","T","S">>)) @@ ("url" :> Str(<<"h","t","t","p","s",":","/","/","b","l","o","g",".","w","o","r","k","d","a","y",".","c","o","m","/","c">>)) @@ ("content" :> Str(<<"L","o","n","g","e","r"," ","t","e","x","t">>)))

TavilyItemH ==
    Dict(("title" :> Str(<<"w","o","r","k","d","a","y"," ","a","g","e","n","t","s">>)) @@ ("url" :> Str(<<"h","t","t","p","s",":","/","/","b","l","o","g",".","w","o","r","k","d","a","y",".","c","o","m","/","d">>)) @@ ("content" :> Str(<<"O","t","h","e","r"," ","t","e","x","t","s">>)))

ReplyTwins == TavilyReply(<<TavilyItemA, TavilyItemE, TavilyItemB, TavilyItemG, TavilyItemH>>)

\* the URLs that answer the probe of build_context
SomeReachable == {<<"h","t","t","p","s",":","/","/","b","l","o","g",".","w","o","r","k","d","a","y",".","c","o","m","/","a">>, <<"h","t","t","p","s",":","/","/","x",".","c","o","m","/","n">>}

\* the document of a provider reply, and its text
LiveDocument ==
    Dict(("type" :> Str(<<"d","a","i","l","y">>)) @@ ("run_date" :> Str(YESTERDAY)) @@ ("title" :> Str(<<"A","g","e","n","t","s">>))
      @@ ("highlights" :> List(<<Highlight1>>))
      @@ ("html_body" :> Str(<<"<","p",">","<","a"," ","h","r","e","f","=","\"","w","o","r","k","d","a","y",".","c","o","m","/","a","\"",">","W","<","/","a",">","<","/","p",">">>)))

UndatedDocument == Dict(("title" :> Str(<<"A","g","e","n","t","s">>)) @@ ("html_body" :> Str(<<"<","p",">","S","e","e"," ","h","t","t","p","s",":","/","/","x",".","c","o","m","/","n","<","/","p",">">>)))

\* a reply whose body is null: write_html_to_pages raises on it
NullBodyDocument == Dict(("title" :> Str(<<"A","g","e","n","t","s">>)) @@ ("html_body" :> None))

ProviderDocuments == {LiveDocument, UndatedDocument, NullBodyDocument, List(<<>>)}

Fenced(text) == <<"U+0060","U+0060","U+0060","j","s","o","n","\n">> \o text \o <<"\n","U+0060","U+0060","U+0060">>

ResponsesReply(text) ==
    [kind |-> "json", data |-> Dict(("id" :> Str(<<"r","e","s","p","_","1">>)) @@ ("output_text" :> Str(text)))]

NestedReply(text) ==
    [kind |-> "json",
     data |-> Dict(("id" :> Str(<<"r","e","s","p","_","1">>))
                @@ ("output" :> List(<<Dict("content" :> List(<<Dict("text" :> Str(text))>>))>>)))]

ChatReply(content) ==
    [kind |-> "json",
     data |-> Dict(("id" :> Str(<<"c","h","a","t","_","1">>))
                @@ ("choices" :> List(<<Dict("message" :> Dict(("role" :> Str(<<"a","s","s","i","s","t","a","n","t">>)) @@ ("content" :> content)))>>)))]

Transport == [kind |-> "transport"]

Status(code) == [kind |-> "status", status |-> code]

Body == [kind |-> "body"]

\* what the provider answers in a run: the replies it may give to a request
OpenAIWorlds ==
    {{Transport},
     {Status(400), Status(500)},
     {Body, ResponsesReply(<<"S","o","r","r","y",","," ","n","o"," ","J","S","O","N"," ","t","o","d","a","y",".">>)},
     {ResponsesReply(<<>>), ChatReply(None), ResponsesReply(<<"[","]">>)},
     {Status(400), ResponsesReply(json_dumps(LiveDocument, 0))},
     {Transport, NestedReply(Fenced(json_dumps(UndatedDocument, 0)))},
     {Status(401), ChatReply(Str(<<"H","e","r","e"," ","i","t"," ","i","s",":"," ">> \o json_dumps(LiveDocument, 0)))}}

\* the worlds of a run: the search service finds nothing, or finds pages of
\* which all, some or none answer the probe, or sends a malformed reply
Worlds ==
    {[tavily |-> {ReplyNone, ReplyError}, reachable |-> {}, openai |-> {Transport}]}
      \cup {[tavily |-> {ReplyOne}, reachable |-> SomeReachable, openai |-> w] : w \in OpenAIWorlds}
      \cup {[tavily |-> {ReplyMany, ReplyNone}, reachable |-> r, openai |-> {Transport}] : r \in {{}, SomeReachable}}
      \cup {[tavily |-> {ReplyOne, ReplyList}, reachable |-> {}, openai |-> {Transport}],
            [tavily |-> {ReplyStrings}, reachable |-> {}, openai |-> {Transport}]}

MainWorlds ==
    {[tavily |-> {ReplyNone, ReplyError}, reachable |-> {}, openai |-> {Transport}],
     [tavily |-> {ReplyMany}, reachable |-> SomeReachable, openai |-> {Transport}],
     [tavily |-> {ReplyOne}, reachable |-> SomeReachable, openai |-> {Status(400), ResponsesReply(json_dumps(LiveDocument, 0))}],
     [tavily |-> {ReplyOne}, reachable |-> {}, openai |-> {Transport, NestedReply(Fenced(json_dumps(UndatedDocument, 0)))}],
     [tavily |-> {ReplyOne}, reachable |-> {}, openai |-> {ResponsesReply(json_dumps(NullBodyDocument, 0))}],
     [tavily |-> {ReplyList}, reachable |-> {}, openai |-> {Transport}]}

\* the worlds of build_context: what the search service finds, and which of
\* the pages answer the probe
ContextWorlds ==
    {[tavily |-> t, reachable |-> r, openai |-> {Transport}] :
        t \in {{ReplyNone}, {ReplyOne, ReplyError}, {ReplyTwins, ReplyNone}, {ReplyMany, ReplyTwins}},
        r \in {{}, SomeReachable, {<<"h","t","t","p","s",":","/","/","b","l","o","g",".","w","o","r","k","d","a","y",".","c","o","m","/","c">>, <<"h","t","t","p","s",":","/","/","b","l","o","g",".","w","o","r","k","d","a","y",".","c","o","m","/","d">>}}}

ProviderKeys == ("OPENAI_API_KEY" :> <<"s","k","-","t","e","s","t","-","1">> ) @@ ("TAVILY_API_KEY" :> <<"t","v","l","y","-","1","2","3","4","5","6","7">>)

RequireLive == "OPENAI_REQUIRE_LIVE" :> <<"1">>

CallEnvirons ==
    {NoEnviron, RequireLive,
     "TAVILY_API_KEY" :> <<"t","v","l","y","-","1","2","3","4","5","6","7">>, ("TAVILY_API_KEY" :> <<"t","v","l","y","-","1","2","3","4","5","6","7">>) @@ RequireLive,
     ProviderKeys, ProviderKeys @@ RequireLive,
     ProviderKeys @@ ("OPENAI_MODEL" :> <<"g","p","t","-","4",".","1","-","m","i","n","i"," ">>)}

MainEnvirons ==
    {NoEnviron, RequireLive, ("PRESERVE_MODEL_HTML" :> <<"1">>) @@ ("TAVILY_SEARCH_DEPTH" :> <<"B","a","s","i","c"," ">>),
     EmailEnviron, "TAVILY_API_KEY" :> <<"t","v","l","y","-","1","2","3","4","5","6","7">>,
     ProviderKeys, ProviderKeys @@ RequireLive, ProviderKeys @@ EmailEnviron}

Modes == {"auto", "responses", "chat"}

(***************************************************************************)
(* The runs.                                                               *)
(***************************************************************************)
\* no report in progress
\* no call of call_openai
IdleCall ==
    /\ caller = "none"
    /\ mode = "auto"
    /\ requests = TRUE
    /\ world = [tavily |-> {}, reachable |-> {}, openai |-> {}]
    /\ searched = 0
    /\ results = <<>>
    /\ tavily_debug = <<>>
    /\ context = None
    /\ attempt = None
    /\ last_error = None
    /\ sent = 0

\* href values whose scheme is missing or malformed: schemeless, www.,
\* single-slash, and with whitespace around "://"
SchemelessForms == {<<"/","/">>, <<"w","w","w",".">>}

SingleSlashForms == {<<"h","t","t","p","s",":","/">>, <<"h","t","t","p",":","/">>}

SpacedForms == {<<"h","t","t","p","s",":"," ","/","/">>, <<"h","t","t","p","s"," ",":","/","/">>, <<"h","t","t","p",":"," ","/","/">>, <<"h","t","t","p"," ",":"," ","/","/">>}

MalformedSchemeInputs ==
    {p \o b \o Concat(t) :
        p \in SchemelessForms \cup SingleSlashForms \cup SpacedForms,
        b \in DomainBodies, t \in SeqsUpTo(TrailChars, MaxTrail)}

\* URLs for the percent-encoder: every str of at most MaxUrlLen characters
\* over letters that spell escapes ("%3A", "%20", "%2F"), separators and a
\* space
MaxUrlLen == 4

UrlChars == {"A", "%", "3", "2", "0", "/", " "}

EncoderUrls == SeqsUpTo(UrlChars, MaxUrlLen)

IdlePipeline ==
    /\ IdleCall
    /\ RUN_TYPE = <<>>
    /\ synthesized = None
    /\ payload = None
    /\ rendered = <<>>
    /\ debug_files = <<>>
    /\ page = None
    /\ email = None
    /\ raised = None

InitHref ==
    /\ pc = "href"
    /\ raw_val \in HrefInputs
    /\ href = <<>>
    /\ html_markup = <<>>
    /\ autolinked = <<>>
    /\ rewritten = <<>>
    /\ rewritten2 = <<>>
    /\ environ = NoEnviron
    /\ IdlePipeline

\* normalized = _normalize_href(href_val)
NormalizeHref ==
    /\ pc = "href"
    /\ href' = _normalize_href(raw_val)
    /\ pc' = "href_done"
    /\ UNCHANGED <<raw_val, html_markup, autolinked, rewritten, rewritten2,
                   environ>>
    /\ UNCHANGED <<pipeline, call>>

NextHref == NormalizeHref

SpecHref == InitHref /\ [][NextHref]_vars

\* the percent-encoder on its own, applied to a URL and then to its result
InitEncode ==
    /\ pc = "encode"
    /\ raw_val \in EncoderUrls
    /\ href = <<>>
    /\ html_markup = <<>>
    /\ autolinked = <<>>
    /\ rewritten = <<>>
    /\ rewritten2 = <<>>
    /\ environ = NoEnviron
    /\ IdlePipeline

\* _percent_encode_url(url)
PercentEncode ==
    /\ pc = "encode"
    /\ href' = _percent_encode_url(raw_val)
    /\ pc' = "encoded"
    /\ UNCHANGED <<raw_val, html_markup, autolinked, rewritten, rewritten2, environ, pipeline, call>>

\* _percent_encode_url of the result
PercentEncodeAgain ==
    /\ pc = "encoded"
    /\ rewritten' = _percent_encode_url(href)
    /\ pc' = "encoded_again"
    /\ UNCHANGED <<raw_val, href, html_markup, autolinked, rewritten2, environ, pipeline, call>>

NextEncode == PercentEncode \/ PercentEncodeAgain

SpecEncode == InitEncode /\ [][NextEncode]_vars

\* _normalize_href on the malformed scheme forms
InitScheme ==
    /\ pc = "href"
    /\ raw_val \in MalformedSchemeInputs
    /\ href = <<>>
    /\ html_markup = <<>>
    /\ autolinked = <<>>
    /\ rewritten = <<>>
    /\ rewritten2 = <<>>
    /\ environ = NoEnviron
    /\ IdlePipeline

SpecScheme == InitScheme /\ [][NextHref]_vars

InitHtml ==
    /\ pc = "html"
    /\ html_markup \in Fragments
    /\ raw_val = <<>>
    /\ href = <<>>
    /\ autolinked = <<>>
    /\ rewritten = <<>>
    /\ rewritten2 = <<>>
    /\ environ \in SwitchEnvirons
    /\ IdlePipeline

\* _postprocess_payload: processed["html_body"] = _rewrite_links_in_html(html_body)
RewriteLinks ==
    /\ pc = "html"
    /\ autolinked' = IF PRESERVE_MODEL_HTML
                     THEN html_markup
                     ELSE _autolink_plain_urls_and_markdown(html_markup)
    /\ rewritten' = _rewrite_links_in_html(html_markup)
    /\ pc' = "html_done"
    /\ UNCHANGED <<raw_val, href, html_markup, rewritten2, environ>>
    /\ UNCHANGED <<pipeline, call>>

\* send_email: body_html = _rewrite_links_in_html(body_html), on the body
\* that _postprocess_payload has rewritten
RewriteLinksAgain ==
    /\ pc = "html_done"
    /\ rewritten2' = _rewrite_links_in_html(rewritten)
    /\ pc' = "html_done2"
    /\ UNCHANGED <<raw_val, href, html_markup, autolinked, rewritten,
                   environ>>
    /\ UNCHANGED <<pipeline, call>>

NextHtml == RewriteLinks \/ RewriteLinksAgain

SpecHtml == InitHtml /\ [][NextHtml]_vars

\* the rewriter under each setting of PRESERVE_MODEL_HTML
InitPreserve ==
    /\ pc = "html"
    /\ html_markup \in PlainFragments \cup TextFragments
    /\ raw_val = <<>>
    /\ href = <<>>
    /\ autolinked = <<>>
    /\ rewritten = <<>>
    /\ rewritten2 = <<>>
    /\ environ \in PreserveEnvirons
    /\ IdlePipeline

SpecPreserve == InitPreserve /\ [][NextHtml]_vars

\* the three functions on malformed input
InitMalformed ==
    /\ \/ pc = "href" /\ raw_val \in RejectedUrls /\ html_markup = <<>>
       \/ pc = "html" /\ raw_val = <<>> /\ html_markup \in MalformedFragments
    /\ href = <<>>
    /\ autolinked = <<>>
    /\ rewritten = <<>>
    /\ rewritten2 = <<>>
    /\ environ = NoEnviron
    /\ IdlePipeline

SpecMalformed == InitMalformed /\ [][NextHref \/ NextHtml]_vars

\* the renderer on each shape of the structured fields
InitRender ==
    /\ pc = "render"
    /\ IdleCall
    /\ payload \in RenderPayloads
    /\ RUN_TYPE = <<>>
    /\ synthesized = None
    /\ rendered = <<>>
    /\ debug_files = <<>>
    /\ page = None
    /\ email = None
    /\ raised = None
    /\ raw_val = <<>>
    /\ href = <<>>
    /\ html_markup = <<>>
    /\ autolinked = <<>>
    /\ rewritten = <<>>
    /\ rewritten2 = <<>>
    /\ environ = NoEnviron

\* html = _render_html_from_structured(payload)
Render ==
    /\ pc = "render"
    /\ rendered' = _render_html_from_structured(payload)
    /\ pc' = "render_done"
    /\ UNCHANGED <<raw_val, href, html_markup, autolinked, rewritten, rewritten2, environ, call,
                   RUN_TYPE, synthesized, payload, debug_files, page, email, raised>>

NextRender == Render

SpecRender == InitRender /\ [][NextRender]_vars

\* main from the return of call_openai on
InitPublish ==
    /\ pc = "postprocess"
    /\ IdleCall
    /\ RUN_TYPE \in RunTypes
    /\ environ \in PublishEnvirons
    /\ synthesized \in PublishPayloads \cup TypedPayloads
    /\ payload = synthesized
    /\ rendered = <<>>
    /\ debug_files = <<>>
    /\ page = None
    /\ email = None
    /\ raised = None
    /\ raw_val = <<>>
    /\ href = <<>>
    /\ html_markup = <<>>
    /\ autolinked = <<>>
    /\ rewritten = <<>>
    /\ rewritten2 = <<>>

\* payload = _postprocess_payload(RUN_TYPE, payload)
Postprocess ==
    /\ pc = "postprocess"
    /\ payload' = _postprocess_payload(RUN_TYPE, payload)
    /\ pc' = "debug_artifacts"
    /\ UNCHANGED <<raw_val, href, html_markup, autolinked, rewritten, rewritten2, environ, call,
                   RUN_TYPE, synthesized, rendered, debug_files, page, email, raised>>

\* write_debug_artifacts(RUN_TYPE, payload)
WriteDebugArtifacts ==
    /\ pc = "debug_artifacts"
    /\ debug_files' = write_debug_artifacts(RUN_TYPE, payload)
    /\ pc' = "write_page"
    /\ UNCHANGED <<raw_val, href, html_markup, autolinked, rewritten, rewritten2, environ, call,
                   RUN_TYPE, synthesized, payload, rendered, page, email, raised>>

\* target_file = write_html_to_pages(RUN_TYPE, payload); an exception ends
\* the run
WritePage ==
    /\ pc = "write_page"
    /\ \E written \in {write_html_to_pages(RUN_TYPE, payload)} :
          IF Raises(written)
          THEN raised' = written /\ pc' = "failed" /\ page' = page
          ELSE page' = written /\ pc' = "send_email" /\ raised' = raised
    /\ UNCHANGED <<raw_val, href, html_markup, autolinked, rewritten, rewritten2, environ, call,
                   RUN_TYPE, synthesized, payload, rendered, debug_files, email>>

\* send_email(payload): nothing without the secrets; with them the message
\* is built and the transport delivers it or raises
SendEmail ==
    /\ pc = "send_email"
    /\ IF ~EmailSecrets
       THEN email' = email /\ raised' = raised /\ pc' = "done"
       ELSE \E msg \in {send_email(payload)} :
               IF Raises(msg)
               THEN email' = email /\ raised' = msg /\ pc' = "failed"
               ELSE \E delivered \in BOOLEAN :
                       IF delivered
                       THEN email' = msg /\ raised' = raised /\ pc' = "done"
                       ELSE email' = email /\ raised' = Raise("SMTPException") /\ pc' = "failed"
    /\ UNCHANGED <<raw_val, href, html_markup, autolinked, rewritten, rewritten2, environ, call,
                   RUN_TYPE, synthesized, payload, rendered, debug_files, page>>

\* write_html_to_pages(run_type, payload), system call by system call, over a
\* working directory that may hold the page of an earlier run
InitWrite ==
    /\ pc = "write_page"
    /\ IdleCall
    /\ RUN_TYPE \in RunTypes
    /\ environ = NoEnviron
    /\ synthesized \in WritePayloads
    /\ payload = synthesized
    /\ rendered = <<>>
    /\ debug_files = <<>>
    /\ page \in {None, File(Target(RUN_TYPE), PublishedBefore)}
    /\ email = None
    /\ raised = None
    /\ raw_val = <<>>
    /\ href = <<>>
    /\ html_markup = <<>>
    /\ autolinked = <<>>
    /\ rewritten = <<>>
    /\ rewritten2 = <<>>

\* lines 1667-1847: html_page is computed, then open(target, "w") creates
\* the file or cuts it to length zero
OpenTarget ==
    /\ pc = "write_page"
    /\ \E written \in {write_html_to_pages(RUN_TYPE, payload)} :
          IF Raises(written)
          THEN raised' = written /\ pc' = "failed" /\ page' = page /\ rendered' = rendered
          ELSE /\ page' = File(written.path, <<>>)
               /\ rendered' = written.content
               /\ pc' = "write_file"
               /\ raised' = raised
    /\ UNCHANGED <<raw_val, href, html_markup, autolinked, rewritten, rewritten2, environ, call,
                   RUN_TYPE, synthesized, payload, debug_files, email>>

\* lines 1848-1849: f.write(html_page) and the end of the with block
WriteTarget ==
    /\ pc = "write_file"
    /\ IF Encodable(rendered)
       THEN page' = File(page.path, rendered) /\ pc' = "page_written" /\ raised' = raised
       ELSE page' = page /\ pc' = "failed" /\ raised' = Raise("UnicodeEncodeError")
    /\ UNCHANGED <<raw_val, href, html_markup, autolinked, rewritten, rewritten2, environ, call,
                   RUN_TYPE, synthesized, payload, rendered, debug_files, email>>

NextWrite == OpenTarget \/ WriteTarget

SpecWrite == InitWrite /\ [][NextWrite]_vars

NextPublish == Postprocess \/ WriteDebugArtifacts \/ WritePage \/ SendEmail

SpecPublish == InitPublish /\ [][NextPublish]_vars

\* call_openai(run_type, mode) called on its own
InitCall ==
    /\ pc = "build_context"
    /\ caller = "direct"
    /\ RUN_TYPE \in RunTypes
    /\ mode \in Modes
    /\ requests \in BOOLEAN
    /\ environ \in CallEnvirons
    /\ world \in Worlds
    /\ searched = 0
    /\ results = <<>>
    /\ tavily_debug = <<>>
    /\ context = None
    /\ attempt = None
    /\ last_error = None
    /\ sent = 0
    /\ synthesized = None
    /\ payload = None
    /\ rendered = <<>>
    /\ debug_files = <<>>
    /\ page = None
    /\ email = None
    /\ raised = None
    /\ raw_val = <<>>
    /\ href = <<>>
    /\ html_markup = <<>>
    /\ autolinked = <<>>
    /\ rewritten = <<>>
    /\ rewritten2 = <<>>

\* main() of a daily or weekly run: payload = call_openai(RUN_TYPE)
InitMain ==
    /\ pc = "build_context"
    /\ caller = "main"
    /\ RUN_TYPE \in RunTypes
    /\ mode = "auto"
    /\ requests \in BOOLEAN
    /\ environ \in MainEnvirons
    /\ world \in MainWorlds
    /\ searched = 0
    /\ results = <<>>
    /\ tavily_debug = <<>>
    /\ context = None
    /\ attempt = None
    /\ last_error = None
    /\ sent = 0
    /\ synthesized = None
    /\ payload = None
    /\ rendered = <<>>
    /\ debug_files = <<>>
    /\ page = None
    /\ email = None
    /\ raised = None
    /\ raw_val = <<>>
    /\ href = <<>>
    /\ html_markup = <<>>
    /\ autolinked = <<>>
    /\ rewritten = <<>>
    /\ rewritten2 = <<>>

\* build_context(run_type) on its own
InitContext ==
    /\ pc = "build_context"
    /\ caller = "direct"
    /\ mode = "auto"
    /\ requests = TRUE
    /\ RUN_TYPE \in RunTypes
    /\ environ = ProviderKeys
    /\ world \in ContextWorlds
    /\ searched = 0
    /\ results = <<>>
    /\ tavily_debug = <<>>
    /\ context = None
    /\ attempt = None
    /\ last_error = None
    /\ sent = 0
    /\ synthesized = None
    /\ payload = None
    /\ rendered = <<>>
    /\ debug_files = <<>>
    /\ page = None
    /\ email = None
    /\ raised = None
    /\ raw_val = <<>>
    /\ href = <<>>
    /\ html_markup = <<>>
    /\ autolinked = <<>>
    /\ rewritten = <<>>
    /\ rewritten2 = <<>>

\* a main that hands the payload of call_openai to the page write as it is
ReturnsToPageWrite(p) ==
    /\ synthesized' = p
    /\ payload' = (IF caller = "main" THEN p ELSE payload)
    /\ pc' = (IF caller = "main" THEN "write_page" ELSE "returned")
    /\ raised' = raised

\* call_openai returns p: main goes on with it
Returns(p) ==
    /\ synthesized' = p
    /\ payload' = (IF caller = "main" THEN p ELSE payload)
    /\ pc' = (IF caller = "main" THEN "postprocess" ELSE "returned")
    /\ raised' = raised

\* call_openai raises exc: nothing in main catches it
Propagates(exc) ==
    /\ raised' = exc
    /\ pc' = (IF caller = "main" THEN "failed" ELSE "raised")
    /\ UNCHANGED <<synthesized, payload>>

\* the search loops of build_context are over (lines 753-776)
SearchDone ==
    \/ searched = 2 * Len(queries(RUN_TYPE))
    \/ searched = Len(queries(RUN_TYPE)) /\ Len(results) >= broaden_threshold

\* the call of tavily_search that is next: a query of the first pass, or of
\* the pass without preferred domains
NextSearch(reply) ==
    IF searched < Len(queries(RUN_TYPE))
    THEN tavily_search(queries(RUN_TYPE)[searched + 1], time_range(RUN_TYPE), PREFERRED_DOMAINS, 10, reply)
    ELSE tavily_search(queries(RUN_TYPE)[searched - Len(queries(RUN_TYPE)) + 1], time_range(RUN_TYPE), None, 5, reply)

Searched(found) ==
    /\ tavily_debug' = Append(tavily_debug, found.entry)
    /\ IF Raises(found.out)
       THEN Propagates(found.out) /\ UNCHANGED <<results, searched>>
       ELSE /\ results' = results \o found.out.elems
            /\ searched' = searched + 1
            /\ UNCHANGED <<pc, synthesized, payload, raised>>

\* one call of tavily_search by build_context; no request is made without
\* the key
TavilySearch ==
    /\ pc = "build_context"
    /\ ~SearchDone
    /\ IF TAVILY_API_KEY = <<>>
       THEN Searched(NextSearch(ReplyNone))
       ELSE \E reply \in world.tavily : Searched(NextSearch(reply))
    /\ UNCHANGED <<raw_val, href, html_markup, autolinked, rewritten, rewritten2, environ,
                   caller, mode, requests, world, context, attempt, last_error, sent,
                   RUN_TYPE, rendered, debug_files, page, email>>

\* lines 819-886: build_context returns
BuildContext ==
    /\ pc = "build_context"
    /\ SearchDone
    /\ context' = [results |-> List(final_items(results, world.reachable)),
                   text    |-> context_text(final_items(results, world.reachable))]
    /\ pc' = "call_openai"
    /\ UNCHANGED <<raw_val, href, html_markup, autolinked, rewritten, rewritten2, environ,
                   caller, mode, requests, world, searched, results, tavily_debug, attempt,
                   last_error, sent, pipeline>>

\* lines 1368-1419: call_openai up to its loop over the candidate models
Prepare ==
    /\ pc = "call_openai"
    /\ IF context.text = NO_SEARCH_RESULTS
       THEN Returns(NoResultsReturn(RUN_TYPE, context, tavily_debug)) /\ attempt' = attempt
       ELSE IF OPENAI_API_KEY = <<>>
       THEN /\ IF OPENAI_REQUIRE_LIVE
               THEN Propagates(Raise("RuntimeError"))
               ELSE Returns(StubReturn(RUN_TYPE, StubModel, context, tavily_debug))
            /\ attempt' = attempt
       ELSE IF ~requests
       THEN Propagates(Raise("RuntimeError")) /\ attempt' = attempt
       ELSE /\ attempt' = [model |-> 1, endpoint |-> FirstEndpoint(mode), variant |-> 1]
            /\ pc' = "request"
            /\ UNCHANGED <<synthesized, payload, raised>>
    /\ UNCHANGED <<raw_val, href, html_markup, autolinked, rewritten, rewritten2, environ,
                   caller, mode, requests, world, searched, results, tavily_debug, context,
                   last_error, sent, RUN_TYPE, rendered, debug_files, page, email>>

\* lines 1561-1568 and 1627-1645: an attempt has failed
Failed(exc) ==
    /\ last_error' = exc
    /\ IF attempt.endpoint = "responses" /\ mode = "auto"
       THEN /\ attempt' = [attempt EXCEPT !.endpoint = "chat", !.variant = 1]
            /\ UNCHANGED <<pc, synthesized, payload, raised>>
       ELSE IF attempt.endpoint = "chat" /\ mode = "chat"
       THEN /\ Returns(StubReturn(RUN_TYPE, candidate_models[attempt.model], context, tavily_debug))
            /\ attempt' = attempt
       ELSE IF attempt.model < Len(candidate_models)
       THEN /\ attempt' = [model |-> attempt.model + 1, endpoint |-> FirstEndpoint(mode), variant |-> 1]
            /\ UNCHANGED <<pc, synthesized, payload, raised>>
       ELSE /\ pc' = "give_up"
            /\ UNCHANGED <<attempt, synthesized, payload, raised>>

Replied(result) ==
    IF Raises(result)
    THEN Failed(result)
    ELSE Returns(result) /\ UNCHANGED <<attempt, last_error>>

\* lines 1513-1560 and 1578-1626: one request to the provider and what
\* call_openai does with the reply
Request ==
    /\ pc = "request"
    /\ sent' = sent + 1
    /\ \E reply \in world.openai :
          IF TriesNextVariant(reply, attempt.variant, Variants(attempt.endpoint, candidate_models[attempt.model]))
          THEN /\ attempt' = [attempt EXCEPT !.variant = attempt.variant + 1]
               /\ UNCHANGED <<pc, last_error, synthesized, payload, raised>>
          ELSE Replied(ReplyResult(reply, attempt.endpoint, candidate_models[attempt.model], RUN_TYPE,
                                   context, tavily_debug, ProviderDocuments))
    /\ UNCHANGED <<raw_val, href, html_markup, autolinked, rewritten, rewritten2, environ,
                   caller, mode, requests, world, searched, results, tavily_debug, context,
                   RUN_TYPE, rendered, debug_files, page, email>>

\* lines 1647-1661: every candidate model has failed
GiveUp ==
    /\ pc = "give_up"
    /\ IF OPENAI_REQUIRE_LIVE
       THEN Propagates(IF last_error /= None THEN last_error ELSE Raise("RuntimeError"))
       ELSE Returns(StubReturn(RUN_TYPE, candidate_models[1], context, tavily_debug))
    /\ UNCHANGED <<raw_val, href, html_markup, autolinked, rewritten, rewritten2, environ,
                   caller, mode, requests, world, searched, results, tavily_debug, context,
                   attempt, last_error, sent, RUN_TYPE, rendered, debug_files, page, email>>

NextCall == TavilySearch \/ BuildContext \/ Prepare \/ Request \/ GiveUp

SpecCall == InitCall /\ [][NextCall]_vars

NextContext == TavilySearch \/ BuildContext

SpecContext == InitContext /\ [][NextContext]_vars

NextMain == NextCall \/ NextPublish

SpecMain == InitMain /\ [][NextMain]_vars

Init ==
    InitHref \/ InitHtml \/ InitPreserve \/ InitMalformed \/ InitRender \/ InitPublish
      \/ InitCall \/ InitMain \/ InitEncode \/ InitScheme \/ InitContext
      \/ InitWrite

Next == NextHref \/ NextHtml \/ NextRender \/ NextPublish \/ NextCall \/ NextEncode \/ NextWrite

Spec == Init /\ [][Next]_vars

(***************************************************************************)
(* The anchors of a text as an HTML parser reads them: "<a", whitespace,   *)
(* attributes (a name, optionally "=" and a quoted or unquoted value), ">".*)
(* The properties below are stated on this reading of the input and of the *)
(* output, not on the rewriter's own pattern.                              *)
(***************************************************************************)
HtmlSpace == {" ", "\t", "\n", "\f", "\r"}

HREF == <<"h","r","e","f">>
TARGET == <<"t","a","r","g","e","t">>
REL == <<"r","e","l">>

\* the value that follows "=" at index v, and the index after it
HtmlValueAt(t, v) ==
    IF v > Len(t)
    THEN NoMatch
    ELSE IF t[v] \in {"\"", "'"}
    THEN LET c == FindIn(t, {t[v]}, v + 1)
         IN  IF c = 0
             THEN NoMatch
             ELSE [ok |-> TRUE, value |-> SubSeq(t, v + 1, c - 1), delim |-> t[v], next |-> c + 1]
    ELSE LET r == UntilIn(t, HtmlSpace \cup {">"}, v)
         IN  [ok |-> TRUE, value |-> SubSeq(t, v, r - 1), delim |-> "", next |-> r]

\* the attributes from index p up to the closing ">"
RECURSIVE HtmlAttrsFrom(_, _)
HtmlAttrsFrom(t, p) ==
    LET a == SkipIn(t, HtmlSpace \cup {"/"}, p)
    IN  IF a > Len(t)
        THEN NoMatch
        ELSE IF t[a] = ">"
        THEN [ok |-> TRUE, end |-> a, attrs |-> <<>>]
        ELSE LET ne   == UntilIn(t, HtmlSpace \cup {"=", ">", "/"}, a + 1)
                 name == lowerStr(SubSeq(t, a, ne - 1))
                 b    == SkipIn(t, HtmlSpace, ne)
                 v    == IF b <= Len(t) /\ t[b] = "="
                         THEN HtmlValueAt(t, SkipIn(t, HtmlSpace, b + 1))
                         ELSE [ok |-> TRUE, value |-> <<>>, delim |-> "", next |-> ne]
             IN  IF ~v.ok
                 THEN NoMatch
                 ELSE LET rest == HtmlAttrsFrom(t, v.next)
                      IN  IF ~rest.ok
                          THEN NoMatch
                          ELSE [ok |-> TRUE, end |-> rest.end,
                                attrs |-> <<[name |-> name, value |-> v.value, delim |-> v.delim]>>
                                              \o rest.attrs]

\* the anchor start tag at index i, if one starts there
HtmlAnchorAt(t, i) ==
    IF i + 2 <= Len(t) /\ t[i] = "<" /\ lower(t[i + 1]) = "a" /\ t[i + 2] \in HtmlSpace
    THEN LET r == HtmlAttrsFrom(t, i + 2)
         IN  IF r.ok THEN [ok |-> TRUE, start |-> i, end |-> r.end, attrs |-> r.attrs] ELSE NoMatch
    ELSE NoMatch

\* the anchor start tags of t, left to right
RECURSIVE HtmlAnchorsFrom(_, _)
HtmlAnchorsFrom(t, i) ==
    LET js == {j \in i..Len(t) : HtmlAnchorAt(t, j).ok}
    IN  IF js = {}
        THEN <<>>
        ELSE LET a == HtmlAnchorAt(t, Min(js))
             IN  <<a>> \o HtmlAnchorsFrom(t, a.end + 1)

HtmlAnchors(t) == HtmlAnchorsFrom(t, 1)

\* the text of t outside its anchor start tags, piece by piece
RECURSIVE OutsideFrom(_, _, _)
OutsideFrom(t, as, i) ==
    IF as = <<>>
    THEN <<From(t, i)>>
    ELSE <<SubSeq(t, i, Head(as).start - 1)>> \o OutsideFrom(t, Tail(as), Head(as).end + 1)

OutsideText(t) == OutsideFrom(t, HtmlAnchors(t), 1)

\* the attributes of an anchor with a given name
AttrsNamed(a, name) == SelectSeq(a.attrs, LAMBDA x : x.name = name)

HasAttr(a, name) == AttrsNamed(a, name) /= <<>>

\* the href of an anchor: the value of its first href attribute
HrefOf(a) == Head(AttrsNamed(a, HREF)).value

\* the anchors of the input and of the output
InAnchors == HtmlAnchors(html_markup)
OutAnchors == HtmlAnchors(rewritten)

\* an anchor start tag begins at index i
AnchorOpensAt(t, i) ==
    i + 2 <= Len(t) /\ t[i] = "<" /\ lower(t[i + 1]) = "a" /\ t[i + 2] \in HtmlSpace

\* an anchor opens while another one is open
NestedAnchor(t) ==
    \E i \in 1..Len(t) : \E j \in (i + 1)..Len(t) :
        /\ AnchorOpensAt(t, i)
        /\ AnchorOpensAt(t, j)
        /\ \A k \in i..j : ~StartsAtCI(t, k, A_CLOSE)

\* the href values the rewriter emits, one for each anchor it matches
EmittedHrefs == [k \in 1..Len(ATagMatches(autolinked)) |->
                    _normalize_href(ATagMatches(autolinked)[k].href_val)]

Quotes == {"\"", LDQUO, RDQUO, LSQUO, RSQUO}

(***************************************************************************)
(* Properties of _normalize_href, under SpecHref.                          *)
(***************************************************************************)
HrefDone == pc = "href_done"

\* s starts with one "/" and not with "//"
SingleSlash(s) == startswith(s, <<"/">>) /\ ~startswith(s, <<"/", "/">>)

GainsNoTargetOrRel(normalized) ==
    \A post \in OtherAttrs \cup {<<>>} : PostAttrs(<<>>, post, normalized) = post

BareDomains == Domains \cup {<<"w","w","w",".">> \o d : d \in Domains}

PlainPaths == {p \in Paths : Chars(p) \subseteq Alnum \cup {"/"}}

PunctTrails == {Concat(t) : t \in SeqsUpTo(TrailChars \ {<<"#">>, <<"/">>}, MaxTrail)}

HtmlDone == pc \in {"html_done", "html_done2"} /\ ~PRESERVE_MODEL_HTML

\* each anchor of the input has its counterpart, in order, in the output
Aligned == Len(OutAnchors) >= Len(InAnchors)

\* how many attributes of the anchor a have the given name
Count(a, name) == Len(AttrsNamed(a, name))

\* C1: rewriting the output of the rewriter again changes nothing.
RewriteIsIdempotent == pc = "html_done2" => rewritten2 = rewritten

\* C2: no href value the rewriter emits holds a straight double quote or a
\* smart quote, wherever in the raw value the quote stood.
NoQuoteInHref ==
    HtmlDone => \A k \in DOMAIN EmittedHrefs : Chars(EmittedHrefs[k]) \cap Quotes = {}

UnquotedExample == <<"<","a"," ","h","r","e","f","=","/","/","e","x","a","m","p","l","e",".","c","o","m","/","p","a","g","e",">","L","i","n","k","<","/","a",">">>

UnquotedExampleOut ==
    <<"<","a"," ","h","r","e","f","=","\"","h","t","t","p","s",":","/","/","e","x","a","m","p","l","e",".","c","o","m","/","p","a","g","e","\""," ","t","a","r","g","e","t","=","\"","_","b","l","a","n","k","\""," ","r","e","l","=","\"","n","o","o","p","e","n","e","r"," ","n","o","r","e","f","e","r","r","e","r","\"",">","L","i","n","k","<","/","a",">">>

SpacedExampleTag == <<"<","a"," ","h","r","e","f"," ","="," ","\"","w","o","r","k","d","a","y",".","c","o","m","/","r","e","s","o","u","r","c","e","s","\"",">">>

SpacedExampleHref == <<"h","r","e","f","=","\"","h","t","t","p","s",":","/","/","w","o","r","k","d","a","y",".","c","o","m","/","r","e","s","o","u","r","c","e","s","\"">>

\* C6: every anchor of the input, whether its href is double-quoted,
\* single-quoted or unquoted and whatever whitespace surrounds "=", comes out
\* with its href double-quoted and normalized; the unquoted example yields
\* exactly the expected tag, the spaced example the completed href and
\* target="_blank".
EveryAnchorNormalized ==
    HtmlDone =>
        /\ InAnchors /= <<>> =>
              /\ Aligned
              /\ \A k \in 1..Len(InAnchors) : HasAttr(InAnchors[k], HREF) =>
                    /\ HasAttr(OutAnchors[k], HREF)
                    /\ HrefOf(OutAnchors[k]) = _normalize_href(HrefOf(InAnchors[k]))
                    /\ Head(AttrsNamed(OutAnchors[k], HREF)).delim = "\""
        /\ html_markup = UnquotedExample => rewritten = UnquotedExampleOut
        /\ startswith(html_markup, SpacedExampleTag) =>
              /\ Contains(rewritten, SpacedExampleHref)
              /\ Contains(rewritten, Tail(TARGET_BLANK))

\* C7: every anchor whose normalized href begins with http:// or https://
\* carries a target and a rel attribute, each appended exactly when the anchor
\* had none; an anchor with any other href gains neither.
ExternalAnchorsGetTargetAndRel ==
    HtmlDone /\ InAnchors /= <<>> =>
        /\ Aligned
        /\ \A k \in 1..Len(InAnchors) : HasAttr(InAnchors[k], HREF) =>
              LET i == InAnchors[k]
                  o == OutAnchors[k]
              IN  IF is_external(_normalize_href(HrefOf(i)))
                  THEN /\ Count(o, TARGET) = (IF HasAttr(i, TARGET) THEN Count(i, TARGET) ELSE 1)
                       /\ Count(o, REL) = (IF HasAttr(i, REL) THEN Count(i, REL) ELSE 1)
                  ELSE /\ Count(o, TARGET) = Count(i, TARGET)
                       /\ Count(o, REL) = Count(i, REL)

\* C8: the attributes of an anchor other than href come out unchanged and in
\* their places around the href; only target and rel may follow them.
OtherAttributesPreserved ==
    HtmlDone /\ InAnchors /= <<>> =>
        /\ Aligned
        /\ \A k \in 1..Len(InAnchors) : HasAttr(InAnchors[k], HREF) =>
              LET i == InAnchors[k].attrs
                  o == OutAnchors[k].attrs
              IN  /\ Len(o) >= Len(i)
                  /\ \A j \in 1..Len(i) :
                        /\ o[j].name = i[j].name
                        /\ i[j].name /= HREF => o[j].value = i[j].value
                  /\ \A j \in (Len(i) + 1)..Len(o) : o[j].name \in {TARGET, REL}

\* C9: in a fragment that holds an anchor tag, the text outside the anchor
\* start tags is the same after rewriting.
TextOutsideAnchorsUnchanged ==
    HtmlDone /\ InAnchors /= <<>> => OutsideText(rewritten) = OutsideText(html_markup)

\* C10: the pre-pass returns a text that holds an anchor unchanged, and never
\* opens an anchor inside another one.
NoAnchorWrappedTwice ==
    HtmlDone =>
        /\ InAnchors /= <<>> => autolinked = html_markup
        /\ ~NestedAnchor(autolinked)

DefaultExampleTag == <<"<","a"," ","h","r","e","f","=","\"","w","o","r","k","d","a","y",".","c","o","m","/","r","e","s","o","u","r","c","e","s","\"",">">>

Alphabet == AsciiSet \cup DOMAIN Utf8

\* s is a string: nothing but characters
IsStr(s) == \A i \in 1..Len(s) : s[i] \in Alphabet

\* C12: on malformed input each of the three functions returns a string and
\* raises nothing: an href value that urlsplit rejects comes back as its
\* cleaned text, from _normalize_href itself and inside every anchor the
\* rewriter emits, and the empty string comes back empty.
NormalizationFailsOpen ==
    /\ pc = "href_done" =>
          /\ IsStr(href)
          /\ urlsplit_raises(CanonicalHref(raw_val)) => href = CanonicalHref(raw_val)
    /\ pc \in {"html_done", "html_done2"} =>
          /\ IsStr(autolinked)
          /\ IsStr(rewritten)
          /\ html_markup = <<>> => rewritten = <<>>
          /\ \A k \in 1..Len(ATagMatches(autolinked)) :
                urlsplit_raises(CanonicalHref(ATagMatches(autolinked)[k].href_val)) =>
                    /\ EmittedHrefs[k] = CanonicalHref(ATagMatches(autolinked)[k].href_val)
                    /\ Contains(rewritten, EmittedHrefs[k])
    /\ pc = "html_done2" => IsStr(rewritten2)

\* a link with a URL that urlsplit rejects has gone through both passes
RejectedUrlKept ==
    /\ pc = "html_done2"
    /\ \E k \in 1..Len(ATagMatches(autolinked)) :
          /\ urlsplit_raises(CanonicalHref(ATagMatches(autolinked)[k].href_val))
          /\ Contains(rewritten2, ATagMatches(autolinked)[k].href_val)

(***************************************************************************)
(* The renderer of the structured fields.                                  *)
(***************************************************************************)
RenderDone == pc = "render_done"

\* the texts of the <h3> elements of t, left to right
RECURSIVE H3Texts(_, _)
H3Texts(t, i) ==
    LET js == {j \in i..Len(t) : StartsAt(t, j, <<"<","h","3",">">>)}
    IN  IF js = {}
        THEN <<>>
        ELSE <<SubSeq(t, Min(js) + 4, UntilIn(t, {"<"}, Min(js) + 4) - 1)>>
                 \o H3Texts(t, Min(js) + 4)

HeaderOrder ==
    <<<<"H","i","g","h","l","i","g","h","t","s">>, <<"C","o","m","p","e","t","i","t","i","v","e"," ","W","a","t","c","h">>, <<"E","n","a","b","l","e","m","e","n","t">>, <<"A","c","t","i","o","n","s"," ","f","o","r"," ","N","e","x","t"," ","W","e","e","k">>,
      <<"R","i","s","k","s"," ","&"," ","M","i","t","i","g","a","t","i","o","n","s">>, <<"A","l","l"," ","S","o","u","r","c","e","s">>>>

\* a record a section makes a list item of
Yields(section, item) ==
    CASE section = "actions_next_week" -> item.type = "str"
      [] section = "sources" ->
            item.type = "dict" /\ _normalize_href(get_or(item, "url", <<>>)) /= <<>>
      [] OTHER -> item.type = "dict"

HasUsableRecord(p, section) ==
    /\ get_(p, section).type = "list"
    /\ \E i \in 1..Len(get_(p, section).elems) : Yields(section, get_(p, section).elems[i])

\* hs are headers of the fixed list in its order, one for each section of p
\* that has a usable record
HeadersInOrder(hs, p) ==
    /\ \A i \in 1..Len(hs) : \E k \in 1..6 : hs[i] = HeaderOrder[k]
    /\ \A i, j \in 1..Len(hs) : \A k, l \in 1..6 :
          i < j /\ hs[i] = HeaderOrder[k] /\ hs[j] = HeaderOrder[l] => k < l
    /\ \A k \in 1..6 :
          (\E i \in 1..Len(hs) : hs[i] = HeaderOrder[k]) <=> HasUsableRecord(p, SectionOrder[k])

\* every header of t is followed by a list that holds an item, and every
\* list follows a header
HeadersPaired(t) ==
    \A i \in 1..Len(t) :
        /\ StartsAt(t, i, <<"<","/","h","3",">">>) => StartsAt(t, i + 5, <<"<","u","l",">","<","l","i",">">>)
        /\ StartsAt(t, i, <<"<","u","l",">">>) => i > 5 /\ StartsAt(t, i - 5, <<"<","/","h","3",">">>)
        /\ StartsAt(t, i, <<"<","/","u","l",">">>) => i > 5 /\ StartsAt(t, i - 5, <<"<","/","l","i",">">>)

\* C15: _render_html_from_structured emits the section blocks in the order
\* Highlights, Competitive Watch, Enablement, Actions for Next Week, Risks &
\* Mitigations, All Sources, and emits the header and the list of a section
\* exactly when the section yields a list item: a section that is missing,
\* empty, not a list, or holds no usable record gets no <h3> and no <ul>.
SectionsInOrderNoEmptyPairs ==
    RenderDone =>
        /\ HeadersInOrder(H3Texts(rendered, 1), payload)
        /\ HeadersPaired(rendered)

\* highlights and sources are rendered, in this order; the risks and the
\* competitive watch, that hold no usable record, are left out
SectionsLeftOut ==
    /\ RenderDone
    /\ get_(payload, "risks") = List(<<Str(<<"n","/","a">>)>>)
    /\ get_(payload, "competitive_watch") = List(<<None>>)
    /\ get_(payload, "sources") = List(<<Source1>>)
    /\ H3Texts(rendered, 1) = <<<<"H","i","g","h","l","i","g","h","t","s">>, <<"A","l","l"," ","S","o","u","r","c","e","s">>>>

(***************************************************************************)
(* The page and the email.                                                 *)
(***************************************************************************)
\* write_html_to_pages has returned or raised
PageStepDone == pc \in {"send_email", "done", "failed"}

PageWritten == PageStepDone /\ page /= None

\* what a document holds between <body> and the closing </body></html>
BodyOf(content) ==
    SubSeq(content, Min({i \in 1..Len(content) : StartsAt(content, i, <<"<","b","o","d","y",">">>)}) + 6,
           Len(content) - 14)

\* C13: the published page is never empty: for every payload, also one
\* whose html_body is empty or missing and whose structured fields are all
\* empty, write_html_to_pages writes a page, and the fragment it places
\* inside <body> is a non-empty string.
PageNeverEmpty == PageStepDone => PageWritten /\ BodyOf(page.content) /= <<>>

\* the payload's html_body when write_html_to_pages reads it
HtmlBody == get(payload, "html_body", Str(NO_CONTENT))

\* the page body starts with the rewritten rendering of the structured fields
FallbackUsed ==
    startswith(BodyOf(page.content),
               _rewrite_links_in_html(_render_html_from_structured(payload)))

\* html_body is missing, empty or holds no anchor start tag
NoAnchorInBody ==
    \/ "html_body" \notin DOMAIN payload.items
    \/ ~Truthy(HtmlBody)
    \/ HtmlBody.type = "str" /\ HtmlAnchors(HtmlBody.val) = <<>>

FirstHighlight == Head(get_(payload, "highlights").elems)

\* the Highlights block with the first highlight: its headline, inside an
\* anchor to its normalized source URL
HighlightShown(body) ==
    Contains(body, <<"<","h","3",">","H","i","g","h","l","i","g","h","t","s","<","/","h","3",">","<","u","l",">","<","l","i",">","<","s","t","r","o","n","g",">","<","a"," ","h","r","e","f","=","\"">>
                     \o _normalize_href(get_or(FirstHighlight, "source_url", <<>>)))
      /\ Contains(body, <<">">> \o escape(get_or(FirstHighlight, "headline", <<>>)) \o <<"<","/","a",">","<","/","s","t","r","o","n","g",">">>)

\* C14: write_html_to_pages renders the page body from the structured
\* fields exactly when html_body is missing, empty or contains no anchor tag
\* and one of the six structured fields is non-empty; the body then holds
\* the Highlights block with the headline of a highlight of the payload and
\* an anchor to its source URL, and the rendering has gone through
\* _rewrite_links_in_html.
FallbackExactlyWithoutAnchor ==
    PageWritten =>
        /\ FallbackUsed <=> NoAnchorInBody /\ (\E k \in Sections : Truthy(get_(payload, k)))
        /\ FallbackUsed /\ get_(payload, "highlights") = List(<<Highlight1, Highlight2>>)
              => HighlightShown(BodyOf(page.content))

\* C16: the email body that send_email sends is the normalized HTML
\* fragment that write_html_to_pages has published as the content of the
\* page for the same payload (the page adds the debug output after it), in
\* every run, also when the page body comes from the structured fields.
EmailBodyIsPageContent ==
    pc = "done" /\ email /= None =>
        /\ email.body.type = "str"
        /\ BodyOf(page.content) = email.body.val \o debug_block(payload) \o tavily_debug_html(payload)

(***************************************************************************)
(* The run of main.                                                        *)
(***************************************************************************)
\* neither provider key nor mail secret is set
NoCredentials == OPENAI_API_KEY = <<>> /\ TAVILY_API_KEY = <<>> /\ ~EmailSecrets

\* a match of href=(['"])(.*?)\1 starts at i
QuotedHrefAt(t, i) ==
    /\ StartsAt(t, i, <<"h","r","e","f","=">>)
    /\ i + 5 <= Len(t)
    /\ t[i + 5] \in {"'", "\""}
    /\ FindIn(t, {t[i + 5], "\n"}, i + 6) > 0
    /\ t[FindIn(t, {t[i + 5], "\n"}, i + 6)] = t[i + 5]

QuotedHrefEnd(t, i) == FindIn(t, {t[i + 5]}, i + 6)

\* re.findall: the values of the matches, found from left to right
RECURSIVE QuotedHrefsFrom(_, _)
QuotedHrefsFrom(t, from) ==
    IF \E i \in from..Len(t) : QuotedHrefAt(t, i)
    THEN {SubSeq(t, Min({i \in from..Len(t) : QuotedHrefAt(t, i)}) + 6,
                 QuotedHrefEnd(t, Min({i \in from..Len(t) : QuotedHrefAt(t, i)})) - 1)}
           \cup QuotedHrefsFrom(t, QuotedHrefEnd(t, Min({i \in from..Len(t) : QuotedHrefAt(t, i)})) + 1)
    ELSE {}

QuotedHrefs(t) == QuotedHrefsFrom(t, 1)

LaunchablePrefixes == {<<"h","t","t","p",":","/","/">>, <<"h","t","t","p","s",":","/","/">>, <<"m","a","i","l","t","o",":">>, <<"t","e","l",":">>, <<"#">>, <<"/">>}

SmartQuotes == {LDQUO, RDQUO, LSQUO, RSQUO}

LaunchableHref(v) == (\E p \in LaunchablePrefixes : startswith(v, p)) /\ Chars(v) \cap SmartQuotes = {}

PageOfRun == IF RUN_TYPE = <<"d","a","i","l","y">> THEN <<"d","o","c","s","/","i","n","d","e","x",".","h","t","m","l">> ELSE <<"d","o","c","s","/","w","e","e","k","l","y",".","h","t","m","l">>

ValidPage ==
    /\ page /= None
    /\ page.path = PageOfRun
    /\ Contains(page.content, <<"<","!","D","O","C","T","Y","P","E"," ","h","t","m","l",">">>)
    /\ Contains(page.content, <<"<","b","o","d","y",">">>)
    /\ \A v \in QuotedHrefs(page.content) : LaunchableHref(v)

\* no exception has ended the run, and a run that is over has written a
\* valid page
ExitsWithValidPage == pc /= "failed" /\ (pc = "done" => ValidPage)

\* how far a run has come: its stage, then the calls made within the stage
StageRank ==
    ("build_context" :> 0) @@ ("call_openai" :> 1) @@ ("request" :> 2) @@ ("give_up" :> 3)
      @@ ("postprocess" :> 4) @@ ("debug_artifacts" :> 5) @@ ("write_page" :> 6)
      @@ ("send_email" :> 7) @@ ("done" :> 8) @@ ("failed" :> 8) @@ ("returned" :> 8)
      @@ ("raised" :> 8)

Progress == StageRank[pc] * 100 + searched + sent

RunWithoutCredentials == caller = "main" /\ NoCredentials

\* C17: a daily or weekly run of main without credentials never raises,
\* every step brings it nearer to its end (exit code 0), and at its end it
\* has written docs/index.html (docs/weekly.html
\* for a weekly run) with "<!DOCTYPE html>", "<body>" and quoted href values
\* that all start with http://, https://, mailto:, tel:, # or / and hold no
\* smart quote.
EndToEndWithoutCredentials ==
    /\ [](RunWithoutCredentials => ExitsWithValidPage)
    /\ [][RunWithoutCredentials => Progress' > Progress]_vars

\* C17 witness: a run without credentials is over and its page is written
RunWithoutCredentialsDone ==
    RunWithoutCredentials /\ pc = "done" /\ page /= None /\ Contains(page.content, <<"<","b","o","d","y",">">>)

\* a call of call_openai itself, with OPENAI_REQUIRE_LIVE off
CallWithoutRequireLive == caller = "direct" /\ mode \in {"auto", "responses", "chat"} /\ ~OPENAI_REQUIRE_LIVE

\* what the payloads that call_openai returns are marked with
ReturnMarks == {Str(<<"r","e","s","p","o","n","s","e","s">>), Str(<<"c","h","a","t">>), Str(<<"s","t","u","b">>), Str(<<"n","o","-","s","e","a","r","c","h","-","r","e","s","u","l","t","s">>)}

\* C18: with OPENAI_REQUIRE_LIVE off, a call of call_openai in mode auto,
\* responses or chat never ends by raising an exception, with or without the
\* HTTP client and whatever Tavily and the provider reply; when it is over
\* it has returned a live result or one of the two placeholders.
NeverPropagatesWithoutRequireLive ==
    CallWithoutRequireLive =>
        /\ pc /= "raised"
        /\ pc = "returned" => get_(synthesized, "_debug_endpoint") \in ReturnMarks

\* a call of call_openai itself, with OPENAI_REQUIRE_LIVE on, that went as
\* far as synthesis: build_context has found sources
CallWithRequireLive ==
    /\ caller = "direct" /\ mode \in {"auto", "responses", "chat"} /\ OPENAI_REQUIRE_LIVE
    /\ context /= None /\ context.text /= NO_SEARCH_RESULTS

Placeholder(p) == get_(p, "_debug_endpoint") \in {Str(<<"s","t","u","b">>), Str(<<"n","o","-","s","e","a","r","c","h","-","r","e","s","u","l","t","s">>)}

\* C19: with OPENAI_REQUIRE_LIVE on, a call of call_openai in mode auto,
\* responses or chat that has gone as far as synthesis returns no placeholder:
\* what it returns is a live result, and when every attempt has failed it
\* raises the last failure.
RequireLiveNeverReturnsPlaceholder ==
    CallWithRequireLive =>
        /\ pc = "returned" => ~Placeholder(synthesized)
        /\ pc = "raised" /\ sent > 0 => raised = last_error

\* the run_date of the payload call_openai returned, Missing when it has none
ProviderRunDate == get(synthesized, "run_date", Missing)

\* main has passed _postprocess_payload
Postprocessed == pc \in {"debug_artifacts", "write_page", "send_email", "done"}

EndsWith(t, s) == Len(t) >= Len(s) /\ SubSeq(t, Len(t) - Len(s) + 1, Len(t)) = s

\* the debug files and the email that are there carry the date d
PublishedUnder(d, stamp) ==
    /\ email /= None => EndsWith(email.subject, << " ", "U+2013", " " >> \o d)
    /\ \A i \in DOMAIN debug_files : Contains(debug_files[i].path, << "-" >> \o stamp \o << "-" >>)

\* C20 as stated: after post-processing the payload's run_date is TODAY_ET,
\* whatever run_date the provider returned, and the names of the debug files
\* and the subject of the email carry TODAY_ET.
RunDateIsCanonical ==
    Postprocessed =>
        /\ get_(payload, "run_date") = Str(TODAY_ET)
        /\ PublishedUnder(TODAY_ET, TODAY_ET)

\* C20, amended: after post-processing the payload's run_date is the
\* provider's run_date whenever the provider's payload has the key, and
\* TODAY_ET only when it has not; the subject of the email shows that value,
\* and the names of the debug files carry it, with TODAY_ET in place of a
\* null or empty value.
RunDateKeptOrFilled ==
    Postprocessed =>
        /\ get_(payload, "run_date") = (IF ProviderRunDate = Missing THEN Str(TODAY_ET) ELSE ProviderRunDate)
        /\ PublishedUnder(str(get_(payload, "run_date")), DebugStamp(get_(payload, "run_date")))

\* C20 witness: a run whose provider dated its payload the day before is
\* over, and its debug files and its email carry that date
ProviderDateKept ==
    /\ pc = "done"
    /\ ProviderRunDate = Str(YESTERDAY)
    /\ get_(payload, "run_date") = Str(YESTERDAY)
    /\ debug_files /= <<>>
    /\ email /= None
    /\ EndsWith(email.subject, YESTERDAY)

\* the value of key in the result of _postprocess_payload, for a key the
\* function fills when it is absent
KeptOrFilled(key, fill) == IF key \in DOMAIN synthesized.items THEN synthesized.items[key] ELSE fill

\* the html_body of the result: the rewritten html_body of the argument when
\* that is a str, and what the argument has otherwise
RewrittenBody ==
    IF get_(synthesized, "html_body").type = "str"
    THEN Str(_rewrite_links_in_html(get_(synthesized, "html_body").val))
    ELSE get(synthesized, "html_body", Missing)

\* C21: _postprocess_payload leaves its argument as it was; its result has
\* the type and run_date of the argument when the argument carries them, and
\* the run type and TODAY_ET only for a key that is absent; html_body is
\* _rewrite_links_in_html of the argument's html_body; every other key has
\* the value it had, and no other key is added or removed.
PostprocessIsNonDestructive ==
    /\ [](Postprocessed =>
            /\ DOMAIN payload.items = DOMAIN synthesized.items \cup {"type", "run_date"}
            /\ payload.items["type"] = KeptOrFilled("type", Str(RUN_TYPE))
            /\ payload.items["run_date"] = KeptOrFilled("run_date", Str(TODAY_ET))
            /\ get(payload, "html_body", Missing) = RewrittenBody
            /\ \A k \in DOMAIN synthesized.items \ {"html_body"} : payload.items[k] = synthesized.items[k])
    /\ [][pc = "postprocess" => synthesized' = synthesized]_vars

\* C21 witness: a weekly run has post-processed a payload the provider typed
\* daily and dated the day before, and whose html_body the rewriter changes
TypedPayloadKept ==
    /\ Postprocessed
    /\ RUN_TYPE = <<"w","e","e","k","l","y">>
    /\ get_(synthesized, "type") = Str(<<"d","a","i","l","y">>)
    /\ get_(payload, "type") = Str(<<"d","a","i","l","y">>)
    /\ get_(payload, "run_date") = Str(YESTERDAY)
    /\ get_(payload, "html_body") /= get_(synthesized, "html_body")

\* how many times the escape e stands in t
Escapes(t, e) == Cardinality({i \in 1..Len(t) : IsEscape(t, i) /\ SubSeq(t, i, i + 2) = e})

\* the escapes of url are in encoded as they were
EscapesIntact(url, encoded) ==
    /\ Escapes(encoded, <<"%","2","0">>) >= Escapes(url, <<"%","2","0">>)
    /\ Contains(encoded, <<"%","2","5","2","0">>) => Contains(url, <<"%","2","5","2","0">>)

\* C22: _percent_encode_url of a result of _percent_encode_url is that
\* result, and a URL's escapes of unsafe characters ("%20") are in the result
\* as they were: none is encoded again to "%25..".
PercentEncodeIsIdempotent ==
    /\ pc = "encoded_again" => rewritten = href
    /\ pc = "encoded" => EscapesIntact(raw_val, href)

\* the scheme a malformed form stands for
SchemeOfForm(form) == IF startswith(form, <<"h","t","t","p","s">>) THEN HTTPS_ ELSE HTTP_

\* raw begins with form and the domain d, and the result begins with
\* expected and d
Canonicalized(raw, result, form, expected) ==
    \A d \in Domains : startswith(raw, form \o d) => startswith(result, expected \o d)

\* C23: _normalize_href turns "//host" into "https://host", "www.host" into
\* "https://www.host", "https:/host" into "https://host", "http:/host" into
\* "http://host", and a scheme with whitespace around "://" ("https: //host")
\* into the scheme, "://" and the host.
MalformedSchemesCanonicalized ==
    pc = "href_done" =>
        /\ Canonicalized(raw_val, href, <<"/","/">>, HTTPS_)
        /\ Canonicalized(raw_val, href, <<"w","w","w",".">>, HTTPS_ \o <<"w","w","w",".">>)
        /\ \A form \in SingleSlashForms \cup SpacedForms :
              Canonicalized(raw_val, href, form, SchemeOfForm(form))

\* the keys build_context removes duplicates by
NormalizedUrlOf(it) == _normalize_url(UrlOf(it))

HostAndTitle(it) == <<_hostname(UrlOf(it)), _norm_title(get(it, "title", Str(<<>>)).val)>>

\* of the records of found at the positions in group, the position of the
\* one that is kept: the highest score, and the least rank among those
BestIn(found, group, rank) ==
    CHOOSE i \in group :
        \A j \in group :
            \/ _score(found[j]) < _score(found[i])
            \/ _score(found[j]) = _score(found[i]) /\ rank[i] <= rank[j]

\* where the URL of the record at position i stands first in found
FirstWithUrl(found, i) ==
    Min({j \in DOMAIN found : NormalizedUrlOf(found[j]) = NormalizedUrlOf(found[i])})

\* the positions kept when duplicates by normalized URL are removed: one for
\* each URL that is not empty
KeptByUrl(found) ==
    {BestIn(found, {j \in DOMAIN found : NormalizedUrlOf(found[j]) = NormalizedUrlOf(found[i])},
            [j \in DOMAIN found |-> j]) :
        i \in {k \in DOMAIN found : NormalizedUrlOf(found[k]) /= <<>>}}

\* of these, the positions kept when duplicates by host and title are
\* removed; on a tie the record whose URL came first stays
KeptByTitle(found) ==
    {BestIn(found, {j \in KeptByUrl(found) : HostAndTitle(found[j]) = HostAndTitle(found[i])},
            [j \in DOMAIN found |-> FirstWithUrl(found, j)]) :
        i \in KeptByUrl(found)}

\* the records that survive, each with its normalized URL
Survivors(found) == {set(found[i], "url", Str(NormalizedUrlOf(found[i]))) : i \in KeptByTitle(found)}

Answering(items, reachable) == {it \in items : UrlOf(it) \in reachable}

ContextBuilt == caller = "direct" /\ context /= None

WholePage == write_html_to_pages(RUN_TYPE, payload).content

\* C25: the page is written whole or not at all: in no state does the
\* target file hold anything but a whole document, that of this run or that
\* of an earlier one, and a page published before is never left cut short.
PageIsWrittenAtomically ==
    page /= None => page.content = PublishedBefore \/ page.content = WholePage

\* the case of C25 that stays: a page published before, found empty after
\* write_html_to_pages raised
PublishedPageTruncated ==
    /\ pc = "failed"
    /\ raised = Raise("UnicodeEncodeError")
    /\ page = File(Target(RUN_TYPE), <<>>)

\* the two placeholders call_openai builds itself, by what the reader sees
NoResultsPlaceholder(p) ==
    /\ get_(p, "_debug_endpoint") = Str(<<"n","o","-","s","e","a","r","c","h","-","r","e","s","u","l","t","s">>)
    /\ get_(p, "title") = Str(<<"N","o"," ","c","r","e","d","i","b","l","e"," ","W","o","r","k","d","a","y"," ","A","I"," ","u","p","d","a","t","e","s">>)
    /\ get_(p, "highlights") = List(<<>>)

PreviewPlaceholder(p) ==
    /\ get_(p, "_debug_endpoint") = Str(<<"s","t","u","b">>)
    /\ startswith(get_(p, "priority_focus").val, <<"L","o","c","a","l"," ","p","r","e","v","i","e","w"," ","i","s"," ","a","c","t","i","v","e",".">>)

NotLive(p) == get_(p, "_debug_live") = Bool(FALSE)

CallOver == pc \in {"returned", "raised"}

AcquisitionReturned == caller = "direct" /\ context /= None

\* C26 as stated: when build_context found no sources or no provider key
\* is configured, call_openai sends no request; it returns the "no material
\* results" placeholder in the first case and the preview placeholder in the
\* second, each marked as not live.
NoRequestWithoutSourcesOrKey ==
    AcquisitionReturned =>
        /\ context.text = NO_SEARCH_RESULTS \/ OPENAI_API_KEY = <<>> =>
              sent = 0 /\ pc \notin {"request", "give_up"}
        /\ CallOver /\ context.text = NO_SEARCH_RESULTS =>
              pc = "returned" /\ NoResultsPlaceholder(synthesized) /\ NotLive(synthesized)
        /\ CallOver /\ context.text /= NO_SEARCH_RESULTS /\ OPENAI_API_KEY = <<>> =>
              pc = "returned" /\ PreviewPlaceholder(synthesized) /\ NotLive(synthesized)

\* C26 as the code has it: the same, except that with sources, without the
\* key and with OPENAI_REQUIRE_LIVE on the call raises RuntimeError in place
\* of returning the preview placeholder, still without a request.
NoRequestWithoutSourcesOrKeyUnlessRequired ==
    AcquisitionReturned =>
        /\ context.text = NO_SEARCH_RESULTS \/ OPENAI_API_KEY = <<>> =>
              sent = 0 /\ pc \notin {"request", "give_up"}
        /\ CallOver /\ context.text = NO_SEARCH_RESULTS =>
              pc = "returned" /\ NoResultsPlaceholder(synthesized) /\ NotLive(synthesized)
        /\ CallOver /\ context.text /= NO_SEARCH_RESULTS /\ OPENAI_API_KEY = <<>> =>
              IF OPENAI_REQUIRE_LIVE
              THEN pc = "raised" /\ raised = Raise("RuntimeError")
              ELSE pc = "returned" /\ PreviewPlaceholder(synthesized) /\ NotLive(synthesized)

\* C26 witness: with sources and without the key the preview placeholder
\* has been returned
PreviewReturnedWithoutKey ==
    /\ AcquisitionReturned
    /\ pc = "returned"
    /\ context.text /= NO_SEARCH_RESULTS
    /\ OPENAI_API_KEY = <<>>
    /\ PreviewPlaceholder(synthesized)
    /\ sent = 0

AutoCall == caller = "direct" /\ mode = "auto"

\* how many steps of the chain "model 1 Responses, model 1 Chat, model 2
\* Responses, ..." come before the one the attempt stands at
ChainPosition(a) == 2 * (a.model - 1) + (IF a.endpoint = "chat" THEN 1 ELSE 0)

\* the reply a returned payload was parsed from is one the provider gave to
\* the request of this attempt
ReturnedFrom(p, a) ==
    /\ get_(p, "_debug_live") = Bool(TRUE)
    /\ get_(p, "_debug_endpoint") = Str(IF a.endpoint = "chat" THEN <<"c","h","a","t">> ELSE <<"r","e","s","p","o","n","s","e","s">>)
    /\ get_(p, "_debug_model") = Str(candidate_models[a.model])
    /\ \E reply \in world.openai : reply.kind = "json" /\ get_(p, "_debug_raw_http_json") = reply.data

\* C27: in auto mode the first request goes to the Responses shape of the
\* first candidate; after a request the next one goes to the same shape, or
\* after a failure to the Chat shape of the same model when it was Responses
\* and to the Responses shape of the next model in the list when it was Chat,
\* so that a shape of a model is reached only after every shape before it in
\* the chain was requested; the reply that parses ends the call: its
\* payload is returned and no request follows.
AutoModeIsFallbackChain ==
    /\ [][AutoCall /\ pc = "call_openai" /\ pc' = "request" =>
             attempt' = [model |-> 1, endpoint |-> "responses", variant |-> 1]]_vars
    /\ [][AutoCall /\ pc = "request" =>
             /\ sent' = sent + 1
             /\ \/ pc' = "request" /\ attempt' = [attempt EXCEPT !.variant = @ + 1]
                \/ /\ pc' = "request" /\ last_error' /= None
                   /\ attempt' = (IF attempt.endpoint = "responses"
                                  THEN [attempt EXCEPT !.endpoint = "chat", !.variant = 1]
                                  ELSE [model |-> attempt.model + 1, endpoint |-> "responses", variant |-> 1])
                   /\ attempt'.model <= Len(candidate_models)
                \/ /\ pc' = "give_up" /\ last_error' /= None
                   /\ attempt.endpoint = "chat" /\ attempt.model = Len(candidate_models)
                \/ pc' = "returned" /\ ReturnedFrom(synthesized', attempt)]_vars
    /\ [](AutoCall /\ pc = "request" => sent >= ChainPosition(attempt) + attempt.variant - 1)
    /\ [][AutoCall /\ pc \in {"returned", "raised"} => sent' = sent /\ pc' = pc]_vars
    /\ [](\A i, j \in DOMAIN candidate_models : i /= j => candidate_models[i] /= candidate_models[j])

\* C27 witness: the Chat shape of the second model has answered after the
\* three shapes before it failed, and its payload is returned
SecondModelAnswered ==
    /\ AutoCall /\ pc = "returned"
    /\ attempt = [model |-> 2, endpoint |-> "chat", variant |-> 1]
    /\ ReturnedFrom(synthesized, attempt)
    /\ sent = 4

\* the attempt stays with its model and its endpoint
SameEndpoint == pc' = "request" /\ attempt'.model = attempt.model /\ attempt'.endpoint = attempt.endpoint

\* what call_openai does with a reply, by the rule of the variants: on a
\* status 400 with a variant left the next variant is requested, on anything
\* else the endpoint is left with the variants that remain; a reply that is
\* a failure leaves it for the next step of the chain
FollowsVariantRule(reply) ==
    IF /\ reply.kind = "status" /\ reply.status = 400
       /\ attempt.variant < Len(IF attempt.endpoint = "responses"
                                THEN _responses_payload_variants(candidate_models[attempt.model])
                                ELSE _chat_payload_variants(candidate_models[attempt.model]))
    THEN pc' = "request" /\ attempt' = [attempt EXCEPT !.variant = @ + 1] /\ last_error' = last_error
    ELSE /\ ~SameEndpoint
         /\ reply.kind \in {"status", "transport", "body"} =>
               /\ last_error' /= None
               /\ \/ pc' = "request" /\ attempt'.variant = 1
                     /\ ChainPosition(attempt') > ChainPosition(attempt)
                  \/ pc' = "give_up" /\ attempt.model = Len(candidate_models)
                  \/ pc' = "returned" /\ mode = "chat" /\ PreviewPlaceholder(synthesized')

\* C28: every request of an endpoint attempt is followed as the rule of the
\* variants has it for one of the replies the provider may give; the variant
\* after the first is requested only where the provider answers 400, and the
\* variants of an attempt are requested one after the other from the first.
NextVariantOnlyAfter400 ==
    /\ [][caller = "direct" /\ pc = "request" => \E reply \in world.openai : FollowsVariantRule(reply)]_vars
    /\ [][caller = "direct" /\ pc = "request" /\ SameEndpoint =>
             /\ attempt'.variant = attempt.variant + 1
             /\ Status(400) \in world.openai]_vars
    /\ [](caller = "direct" /\ pc = "request" /\ Status(400) \notin world.openai => attempt.variant = 1)

\* C28 witness: the last variant of the Responses endpoint was answered
\* with 400 like those before it, and the call has gone on to Chat
\* Completions for the same model
VariantsExhausted ==
    /\ caller = "direct" /\ mode = "auto" /\ pc = "request"
    /\ attempt = [model |-> 1, endpoint |-> "chat", variant |-> 1]
    /\ sent = Len(_responses_payload_variants(candidate_models[1]))
    /\ last_error = Raise("HTTPError")

\* the requests one call can make when no variant is requested twice
RequestBound ==
    Len(candidate_models) * (Len(_responses_payload_variants(candidate_models[1]))
                             + Len(_chat_payload_variants(candidate_models[1])))

\* the place of an attempt in the order model, endpoint, variant
AttemptRank(a) == ChainPosition(a) * (RequestBound + 1) + a.variant

\* a step call_openai can take where it stands
CanStep ==
    \/ pc = "build_context" /\ (SearchDone \/ TAVILY_API_KEY = <<>> \/ world.tavily /= {})
    \/ pc = "call_openai" /\ context /= None
    \/ pc = "request" /\ world.openai /= {} /\ attempt /= None
    \/ pc = "give_up"

\* C29: call_openai comes to its end, returning or raising: wherever it has
\* not ended it can take a step, and every step takes it further on a way
\* of bounded length; it sends at most (candidate models) x (Responses
\* variants + Chat variants) requests, and each request is for a variant of
\* a model later in the order than the one before, so that none is
\* requested twice.
CallTerminatesWithinBound ==
    /\ [](caller = "direct" /\ ~CallOver => CanStep)
    /\ [][caller = "direct" => Progress' > Progress]_vars
    /\ [](caller = "direct" => Progress <= StageRank["raised"] * 100 + 2 * Len(queries(RUN_TYPE)) + RequestBound)
    /\ [](caller = "direct" => sent <= RequestBound)
    /\ [][caller = "direct" /\ pc = "request" /\ pc' = "request" => AttemptRank(attempt') > AttemptRank(attempt)]_vars
    /\ [](caller = "direct" /\ pc = "request" =>
              /\ attempt.model \in DOMAIN candidate_models
              /\ attempt.variant \in 1..Len(Variants(attempt.endpoint, candidate_models[attempt.model])))

\* C29 witness: every variant of every model was answered with 400 and the
\* call has returned after as many requests as the bound allows
EveryVariantRequested ==
    /\ caller = "direct" /\ mode = "auto" /\ pc = "returned"
    /\ sent = RequestBound
    /\ PreviewPlaceholder(synthesized)

\* the stages of a run in the order of main: acquisition, synthesis,
\* normalization, the debug files, the page, the mail, the end
StageOf ==
    ("build_context" :> 1) @@ ("call_openai" :> 2) @@ ("request" :> 2) @@ ("give_up" :> 2)
      @@ ("postprocess" :> 3) @@ ("debug_artifacts" :> 4) @@ ("write_page" :> 5)
      @@ ("send_email" :> 6) @@ ("done" :> 7) @@ ("failed" :> 7)

MainRun == caller = "main"

\* C30: a run of main never goes back to a stage it has left, and takes
\* normalization, page write and email send in one step each; the page is
\* written in the page stage only and the mail sent in the mail stage only,
\* with the page written before; a failure of the mail transport ends the run
\* with the page written, and a failure of the page write ends it with no
\* page and no mail.
StagesRunInOrder ==
    /\ [][MainRun => StageOf[pc'] >= StageOf[pc]]_vars
    /\ [][MainRun /\ StageOf[pc] >= 3 => StageOf[pc'] > StageOf[pc]]_vars
    /\ [][MainRun /\ StageOf[pc'] > StageOf[pc] => StageOf[pc'] = StageOf[pc] + 1 \/ pc' = "failed"]_vars
    /\ [][MainRun /\ page' /= page => pc = "write_page" /\ pc' = "send_email"]_vars
    /\ [][MainRun /\ email' /= email => pc = "send_email" /\ pc' = "done" /\ page /= None]_vars
    /\ [][MainRun /\ pc = "write_page" /\ pc' = "failed" => raised' /= None /\ page' = None /\ email' = None]_vars
    /\ [][MainRun /\ pc = "send_email" /\ pc' = "failed" => raised' /= None /\ page' = page /\ email' = None]_vars
    /\ [](MainRun /\ pc \in {"send_email", "done"} => page /= None /\ page.content /= <<>>)
    /\ [](MainRun /\ pc = "failed" => raised /= None /\ email = None)
    /\ [](MainRun /\ pc = "failed" /\ raised = Raise("SMTPException") => page /= None)

\* C30 witness: the mail transport has failed and the run has ended with
\* the page written and no mail sent
MailFailedAfterPageWritten ==
    /\ MainRun /\ pc = "failed"
    /\ raised = Raise("SMTPException")
    /\ page /= None /\ Contains(page.content, <<"<","b","o","d","y",">">>)
    /\ email = None

=============================================================================
